---- MODULE Spec2Model ----
(***************************************************************************)
(* Webhook delivery pipeline of MemoizeX: WebhookSender, WebhookQueue and  *)
(* WebhookManager (core/webhook), the log-id generator of                   *)
(* utils/webhook-formatter.ts and the webhook-log accessors of the          *)
(* DatabaseManager.                                                         *)
(*                                                                          *)
(* The runtime is single threaded: every action below is one run-to-        *)
(* completion segment of a handler, from one suspension point (an await of  *)
(* the transport or of the log store, or a timer) to the next.              *)
(***************************************************************************)
EXTENDS Integers, Sequences, FiniteSets, TLC

VARIABLES
    now,           \* Date.now(), in milliseconds
    configs,       \* WebhookManager.configs, the in-memory mirror
    logs,          \* the webhookLogs table: log id -> row
    queue,         \* WebhookQueue.queue
    isProcessing,  \* WebhookQueue.isProcessing
    timer,         \* deadline of the pending setTimeout, or NoTimer
    passes,        \* processQueue invocations suspended at an await
    calls,         \* triggerWebhooks / triggerWebhooksBatch invocations
    nextOid,       \* identity of the next object pushed on the queue
    deliveries,    \* history: one record per sendWebhook invocation
    stops,         \* history: number of stop() calls made
    dbUp,          \* the record store accepts the operations handed to it
    tests,         \* Sender.send / testWebhook invocations made on their own
    store,         \* the webhook_configs table
    ops,           \* addConfig / updateConfig / deleteConfig / loadConfigs invocations
    fmt,           \* formatTweetData: the entity handed in and the data returned
    browse         \* the browsing_history table and the BrowsingHistoryInterceptor calls

\* The state of the delivery pipeline.
pipeline == <<now, configs, logs, queue, isProcessing, timer, passes, calls,
              nextOid, deliveries, stops>>

\* What the delivery pipeline leaves alone.
others == <<dbUp, tests, store, ops, fmt, browse>>

vars == <<now, configs, logs, queue, isProcessing, timer, passes, calls,
          nextOid, deliveries, stops, others>>

----------------------------------------------------------------------------
(* Bounds of the model *)

MaxNow == 3000
TickMs == 1000
MaxCalls == 1
MaxPasses == 2
MaxStops == 1
MaxRC == 10
MaxAdds == 2
MaxTests == 1
MaxLiveNow == 1000
MaxOps == 2
MaxViews == 2
MaxEdits == 1

----------------------------------------------------------------------------
(* Values *)

NoTimer == -1

\* No browsing record, no intercepted response.
NoBrowse == [history |-> {}, handlers |-> <<>>, views |-> <<>>]
None == <<>>
Some(x) == <<x>>


CfgA == [id |-> "A", url |-> "uA", headers |-> "hA", enabled |-> TRUE, events |-> {"like", "view"},
         retry_on_failure |-> TRUE, max_retries |-> 2]
CfgC == [id |-> "C", url |-> "uC", headers |-> "hC", enabled |-> FALSE,
         events |-> {"like", "bookmark", "view"},
         retry_on_failure |-> TRUE, max_retries |-> 2]
CfgD == [id |-> "D", url |-> "uD", headers |-> "hD", enabled |-> TRUE, events |-> {"like", "view"},
         retry_on_failure |-> FALSE, max_retries |-> 3]
CfgE == [id |-> "E", url |-> "uE", headers |-> "hE", enabled |-> TRUE, events |-> {"like"},
         retry_on_failure |-> TRUE, max_retries |-> 0]

\* The configuration records held by the store when the mirror was loaded.
Mirror == <<CfgA, CfgC, CfgD, CfgE>>

\* A configuration the operator adds.
CfgB == [id |-> "B", url |-> "uB", headers |-> "hB", enabled |-> TRUE, events |-> {"bookmark"},
         retry_on_failure |-> TRUE, max_retries |-> 1]

\* The primary keys of webhook_configs in key order.
IdOrder == <<"A", "B", "C", "D", "E">>

\* The table holding the records of a list.
TableOf(list) ==
    [id \in {list[i].id : i \in 1..Len(list)} |->
        (CHOOSE r \in {list[i] : i \in 1..Len(list)} : r.id = id)]

\* What the transport can report for one request.
Outcomes == {[kind |-> "load", status |-> 200, statusText |-> "OK"],
             [kind |-> "load", status |-> 500, statusText |-> "Internal Server Error"]}

\* What the transport can do with one request, with every callback and the
\* exception of the call itself: responses around the 2xx range, a network
\* error with and without a status text, the timeout, and a throw of an Error
\* with a message, of one with an empty message, of a value without a message
\* and of null.
SenderOutcomes ==
    [kind : {"load"}, status : {0, 199, 200, 204, 299, 300, 404, 500},
     statusText : {"", "text"}]
    \cup [kind : {"error"}, statusText : {"", "text"}]
    \cup {[kind |-> "timeout"]}
    \cup [kind : {"throw"}, message : {Some("boom"), Some(""), None}]
    \cup {[kind |-> "thrownull"]}

\* The events and tweets the interceptors call triggerWebhooks with.
TriggerArgs == {<<"like", "t1">>, <<"bookmark", "t1">>}

\* The events and tweet lists they call triggerWebhooksBatch with.
BatchArgs == {<<"view", <<"t1", "t2">>>>}

----------------------------------------------------------------------------
(* Pure helpers *)

Min(a, b) == IF a < b THEN a ELSE b
Max(a, b) == IF a > b THEN a ELSE b

RECURSIVE Pow2(_)
Pow2(n) == IF n = 0 THEN 1 ELSE 2 * Pow2(n - 1)

BASE_RETRY_DELAY == 1000
MAX_RETRY_DELAY == 5 * 60 * 1000

\* The cap forgotten.
calculateDelay_NoCap(retryCount) == BASE_RETRY_DELAY * Pow2(retryCount)

calculateDelay(retryCount) ==
    Min(BASE_RETRY_DELAY * Pow2(retryCount), MAX_RETRY_DELAY)

DEFAULT_TIMEOUT == 10000

\* A string put together from pieces (a template literal): the pieces in order.
\* It is empty when every piece is the empty string.
IsEmptyText(t) == \A i \in 1..Len(t) : t[i] = ""

\* a || b for an optional string a: b when a is absent or empty.
OrElse(a, b) == IF a = None \/ IsEmptyText(a[1]) THEN b ELSE a[1]

\* The fallback forgotten: the message as it is, or the empty string.
CaughtMessage_NoFallback(o, fallback) ==
    IF o.message = None THEN <<"">> ELSE <<o.message[1]>>

\* (error as Error).message || fallback, for a thrown value with a message
\* property or without one.
CaughtMessage(o, fallback) ==
    OrElse(IF o.message = None THEN None ELSE Some(<<o.message[1]>>), <<fallback>>)

\* The range test widened to every status below 400.
IsSuccessStatus_Below400(status) == status >= 200 /\ status < 400

\* response.status >= 200 && response.status < 300
IsSuccessStatus(status) == status >= 200 /\ status < 300

\* WebhookSender.makeRequest: how its promise settles for one transport outcome.
makeRequest(o, timeout) ==
    CASE o.kind = "load" ->
           LET success == IsSuccessStatus(o.status)
           IN  [settled |-> "resolved",
                value |-> [success |-> success, status |-> Some(o.status),
                           error |-> IF success THEN None
                                     ELSE Some(<<"HTTP ", o.status, ": ", o.statusText>>)]]
      [] o.kind = "error" ->
           [settled |-> "resolved",
            value |-> [success |-> FALSE, status |-> None,
                       error |-> Some(<<"Network error: ",
                                        OrElse(Some(<<o.statusText>>), <<"Request failed">>)>>)]]
      [] o.kind = "timeout" ->
           [settled |-> "resolved",
            value |-> [success |-> FALSE, status |-> None,
                       error |-> Some(<<"Request timeout after ", timeout, "ms">>)]]
      [] o.kind = "throw" ->
           [settled |-> "resolved",
            value |-> [success |-> FALSE, status |-> None,
                       error |-> Some(CaughtMessage(o, "Failed to send request"))]]
      [] OTHER ->
           \* null was thrown: reading its message throws inside the catch block
           [settled |-> "rejected",
            reason |-> [message |-> Some("Cannot read properties of null")]]

\* WebhookSender.send with options.timeout = timeout: the result it returns.
send(o, timeout) ==
    LET p == makeRequest(o, timeout)
    IN  IF p.settled = "resolved"
        THEN p.value
        ELSE [success |-> FALSE, status |-> None,
              error |-> Some(CaughtMessage(p.reason, "Unknown error"))]

\* The timeout left at the default.
test_DefaultTimeout(o) == send(o, DEFAULT_TIMEOUT)

\* WebhookSender.test: one send of the synthetic payload with timeout 5000.
test(o) == send(o, 5000)

\* WebhookManager.testWebhook: what it returns for one transport outcome.
testWebhook(o) ==
    LET result == test(o)
    IN  [success |-> result.success,
         message |-> IF result.success
                     THEN <<"Webhook test successful (HTTP ", result.status[1], ")">>
                     ELSE OrElse(result.error, <<"Unknown error">>)]

\* `webhook-${eventType}-${tweetId}-${timestamp}`, kept as its parts.
generateWebhookLogId(eventType, tweetId, timestamp) ==
    <<"webhook", eventType, tweetId, timestamp>>

\* formatWebhookPayload: event, Date.now() and the tweet's data (its id here).
formatWebhookPayload(tweet, eventType, t) ==
    [event |-> eventType, timestamp |-> t, data |-> tweet]

\* Table.put: insert, or replace the row with the same primary key.
addWebhookLog(L, row) ==
    [id \in DOMAIN L \cup {row.id} |-> IF id = row.id THEN row ELSE L[id]]

\* Table.update: change the given fields of an existing row; no row, no effect.
updateWebhookLog(L, id, updates) ==
    IF id \in DOMAIN L
    THEN [L EXCEPT ![id] = [f \in DOMAIN L[id] |->
                              IF f \in DOMAIN updates THEN updates[f] ELSE L[id][f]]]
    ELSE L

\* The catch forgotten: the promise of a failed operation is rejected.
StorageCall_NoCatch(up) == IF up THEN "fulfilled" ELSE "rejected"

\* The promise a DatabaseManager method returns, <table operation>.catch(logError),
\* for an operation the store accepts (up) or refuses: logError returns, so the
\* promise is fulfilled either way.
StorageCall(up) == IF up THEN "fulfilled" ELSE "fulfilled"

\* The table after an operation: a refused operation has no effect.
Stored(after, before) == IF dbUp THEN after ELSE before

\* WebhookManager.getConfigsForEvent
getConfigsForEvent(cfgs, eventType) ==
    LET Match(c) == c.enabled /\ eventType \in c.events
    IN  SelectSeq(cfgs, Match)

----------------------------------------------------------------------------
(* WebhookQueue *)

\* The earliest nextRetryAt of a non-empty queue (the reduce of scheduleProcessing).
EarliestRetryAt(q) ==
    CHOOSE t \in {q[i].nextRetryAt : i \in 1..Len(q)} :
        \A i \in 1..Len(q) : t <= q[i].nextRetryAt

\* The timer aimed at the item pushed last instead of the earliest one.
scheduleProcessing_LastItem(proc, q, tm, t) ==
    IF proc \/ Len(q) = 0
    THEN tm
    ELSE t + Max(0, q[Len(q)].nextRetryAt - t)

\* scheduleProcessing: the timer it leaves pending, given the timer pending before.
scheduleProcessing(proc, q, tm, t) ==
    IF proc \/ Len(q) = 0
    THEN tm
    ELSE t + Max(0, EarliestRetryAt(q) - t)

\* unshift instead of push: the new item goes to the front of the array.
add_Unshift(q, item, t) ==
    <<[item EXCEPT !.nextRetryAt = t + calculateDelay(item.retryCount)]>> \o q

\* The push of add(): the item with its nextRetryAt.
add(q, item, t) ==
    Append(q, [item EXCEPT !.nextRetryAt = t + calculateDelay(item.retryCount)])

\* queue.indexOf(item) followed by splice(index, 1): the first equal element goes.
RECURSIVE RemoveFirst(_, _)
RemoveFirst(q, item) ==
    IF q = <<>> THEN <<>>
    ELSE IF Head(q) = item THEN Tail(q)
    ELSE <<Head(q)>> \o RemoveFirst(Tail(q), item)

\* Every pending item taken, due or not.
ReadyItems_All(q, t) == q

\* readyItems of processQueue
ReadyItems(q, t) ==
    LET Due(item) == item.nextRetryAt <= t
    IN  SelectSeq(q, Due)

\* The limit read from the config as the mirror has it now; no retry when the
\* config is gone from the mirror.
ShouldRetry_CurrentConfig(item) ==
    LET cur == {k \in 1..Len(configs) : configs[k].id = item.configId}
    IN  IF cur = {} THEN FALSE
        ELSE item.retryCount + 1 < configs[CHOOSE k \in cur : TRUE].max_retries

\* Off by one: one retry more than the limit.
ShouldRetry_OffByOne(item) == item.retryCount + 1 <= item.maxRetries

\* The test of processQueue's failure branch: retry again, or finalize.
ShouldRetry(item) == item.retryCount + 1 < item.maxRetries

IdlePass == [pc |-> "idle", item |-> None, rest |-> <<>>]

\* The history of a delivery after one more send was handed to the transport.
NoteSend(dl, d) == [dl EXCEPT ![d].sends = @ + 1]

\* The history of a delivery after the result r of a send (its retry number k).
NoteResult(dl, d, r, k) ==
    [dl EXCEPT ![d] =
        IF r.success
        THEN [@ EXCEPT !.oks = @ + 1,
                       !.okAt = IF dl[d].oks = 0 THEN Some(k) ELSE @,
                       !.okStatus = IF dl[d].oks = 0 THEN r.status ELSE @]
        ELSE [@ EXCEPT !.fails = @ + 1, !.lastError = r.error]]

NoteAdd(dl, d) == [dl EXCEPT ![d].adds = @ + 1]

\* The pass ends without arming the timer again.
ProcessLoop_NoRearm(p, rest, q, tm, dl, proc) ==
    IF rest = <<>>
    THEN /\ passes' = [passes EXCEPT ![p] = IdlePass]
         /\ isProcessing' = FALSE
         /\ timer' = tm
         /\ queue' = q
         /\ deliveries' = dl
    ELSE /\ passes' = [passes EXCEPT ![p] =
                          [pc |-> "wait", item |-> Some(Head(rest)), rest |-> Tail(rest)]]
         /\ isProcessing' = proc
         /\ timer' = tm
         /\ queue' = RemoveFirst(q, Head(rest))
         /\ deliveries' = NoteSend(dl, Head(rest).did)

\* The for loop of processQueue from its next iteration on, up to the next await:
\* the item leaves the queue and is handed to the sender, or the loop has ended,
\* the flag is cleared and the timer re-armed.
ProcessLoop(p, rest, q, tm, dl, proc) ==
    IF rest = <<>>
    THEN /\ passes' = [passes EXCEPT ![p] = IdlePass]
         /\ isProcessing' = FALSE
         /\ timer' = scheduleProcessing(FALSE, q, tm, now)
         /\ queue' = q
         /\ deliveries' = dl
    ELSE /\ passes' = [passes EXCEPT ![p] =
                          [pc |-> "wait", item |-> Some(Head(rest)), rest |-> Tail(rest)]]
         /\ isProcessing' = proc
         /\ timer' = tm
         /\ queue' = RemoveFirst(q, Head(rest))
         /\ deliveries' = NoteSend(dl, Head(rest).did)

FreePass(p) ==
    /\ passes[p].pc = "idle"
    /\ \A r \in 1..(p - 1) : passes[r].pc # "idle"

\* The timer fires: processQueue up to its first await.
TimerFire ==
    /\ timer # NoTimer
    /\ now >= timer
    /\ IF isProcessing
       THEN /\ timer' = NoTimer
            /\ UNCHANGED <<queue, isProcessing, passes, deliveries>>
       ELSE \E p \in 1..MaxPasses :
              /\ FreePass(p)
              /\ ProcessLoop(p, ReadyItems(queue, now), queue, NoTimer, deliveries, TRUE)
    /\ UNCHANGED <<others, now, configs, logs, calls, nextOid, stops>>

\* The sender returns to processQueue: the branch taken on the result, and the
\* loop's next iteration when the branch awaits nothing.
PassResponse(p, o) ==
    /\ passes[p].pc = "wait"
    /\ LET item == passes[p].item[1]
           result == send(o, DEFAULT_TIMEOUT)
           dl == NoteResult(deliveries, item.did, result, item.retryCount + 1)
       IN  IF result.success
           THEN /\ logs' = Stored(updateWebhookLog(logs, item.logId,
                               [status |-> "success",
                                response_status |-> result.status,
                                retry_count |-> item.retryCount + 1]), logs)
                /\ passes' = [passes EXCEPT ![p].pc = IF StorageCall(dbUp) = "rejected"
                                                      THEN "threw" ELSE "upd"]
                /\ deliveries' = dl
                /\ UNCHANGED <<queue, isProcessing, timer, nextOid>>
           ELSE IF ShouldRetry(item)
           THEN LET q == add(queue, [item EXCEPT !.retryCount = item.retryCount + 1,
                                                  !.oid = nextOid], now)
                IN  /\ ProcessLoop(p, passes[p].rest, q,
                                   scheduleProcessing(isProcessing, q, timer, now),
                                   NoteAdd(dl, item.did), isProcessing)
                    /\ nextOid' = nextOid + 1
                    /\ logs' = logs
           ELSE /\ logs' = Stored(updateWebhookLog(logs, item.logId,
                               [status |-> "failed",
                                error_message |-> result.error,
                                retry_count |-> item.retryCount + 1]), logs)
                /\ passes' = [passes EXCEPT ![p].pc = IF StorageCall(dbUp) = "rejected"
                                                      THEN "threw" ELSE "upd"]
                /\ deliveries' = dl
                /\ UNCHANGED <<queue, isProcessing, timer, nextOid>>
    /\ UNCHANGED <<others, now, configs, calls, stops>>

\* db.updateWebhookLog has returned to processQueue.
PassAfterUpdate(p) ==
    /\ passes[p].pc = "upd"
    /\ ProcessLoop(p, passes[p].rest, queue, timer, deliveries, isProcessing)
    /\ UNCHANGED <<others, now, configs, logs, calls, nextOid, stops>>

\* start() that does not schedule.
start_NoSchedule ==
    /\ timer' = timer
    /\ UNCHANGED <<others, now, configs, logs, queue, isProcessing, passes, calls,
                   nextOid, deliveries, stops>>

\* WebhookQueue.start
start ==
    /\ timer' = scheduleProcessing(isProcessing, queue, timer, now)
    /\ UNCHANGED <<others, now, configs, logs, queue, isProcessing, passes, calls,
                   nextOid, deliveries, stops>>

\* stop() that also empties the pending set.
stop_ClearsQueue ==
    /\ stops < MaxStops
    /\ timer' = NoTimer
    /\ isProcessing' = FALSE
    /\ queue' = <<>>
    /\ stops' = stops + 1
    /\ UNCHANGED <<others, now, configs, logs, passes, calls, nextOid, deliveries>>

\* WebhookQueue.stop
stop ==
    /\ stops < MaxStops
    /\ timer' = NoTimer
    /\ isProcessing' = FALSE
    /\ stops' = stops + 1
    /\ UNCHANGED <<others, now, configs, logs, queue, passes, calls, nextOid, deliveries>>

----------------------------------------------------------------------------
(* WebhookManager *)

IdleCall == [pc |-> "idle", batch |-> FALSE, eventType |-> "like", tweets |-> <<>>,
             cfgs |-> <<>>, ti |-> 0, ci |-> 0, payload |-> None, logId |-> None,
             did |-> 0, hist |-> <<>>]

NewDelivery(call, logId, config, payload) ==
    [logId |-> logId, configId |-> config.id, call |-> call,
     url |-> config.url, headers |-> config.headers, payload |-> payload,
     retry_on_failure |-> config.retry_on_failure, max_retries |-> config.max_retries,
     sends |-> 0, adds |-> 0, fails |-> 0, oks |-> 0,
     okAt |-> None, okStatus |-> None, lastError |-> None]

\* The loops of triggerWebhooks / triggerWebhooksBatch from the iteration for
\* tweet ti and config ci on, up to the next await: the loop has ended, or
\* sendWebhook takes its timestamp and log id and puts the 'pending' row.
TriggerLoop(c, cl, ti, ci, L, dl) ==
    IF ti > Len(cl.tweets)
    THEN /\ calls' = [calls EXCEPT ![c] =
                         [cl EXCEPT !.pc = "done", !.ti = 0, !.ci = 0, !.payload = None,
                                    !.logId = None, !.did = 0]]
         /\ logs' = L
         /\ deliveries' = dl
    ELSE LET tweet == cl.tweets[ti]
             config == cl.cfgs[ci]
             payload == IF ci = 1
                        THEN Some(formatWebhookPayload(tweet, cl.eventType, now))
                        ELSE cl.payload
             timestamp == now
             logId == generateWebhookLogId(cl.eventType, tweet, timestamp)
             log == [id |-> logId, event_type |-> cl.eventType, tweet_id |-> tweet,
                     webhook_url |-> config.url, status |-> "pending",
                     request_payload |-> payload[1], response_status |-> None,
                     error_message |-> None, created_at |-> timestamp,
                     retry_count |-> 0]
         IN  /\ calls' = [calls EXCEPT ![c] =
                             [cl EXCEPT !.pc = IF StorageCall(dbUp) = "rejected"
                                               THEN "threw" ELSE "log",
                                        !.ti = ti, !.ci = ci,
                                        !.payload = payload, !.logId = Some(logId),
                                        !.did = Len(dl) + 1,
                                        !.hist = Append(@, <<"log", tweet, config.id>>)]]
             /\ logs' = Stored(addWebhookLog(L, log), L)
             /\ deliveries' = Append(dl, NewDelivery(c, logId, config, payload[1]))

\* The loops nested the other way: tweets inner, configs outer.
NextIndex_ConfigsOuter(cl) ==
    IF cl.ti < Len(cl.tweets) THEN <<cl.ti + 1, cl.ci>>
    ELSE IF cl.ci < Len(cl.cfgs) THEN <<1, cl.ci + 1>>
    ELSE <<cl.ti + 1, 1>>

\* The iteration after the one for (ti, ci): configs inner, tweets outer.
NextIndex(cl) ==
    IF cl.ci < Len(cl.cfgs) THEN <<cl.ti, cl.ci + 1>> ELSE <<cl.ti + 1, 1>>

\* The test of sendWebhook's failure branch: hand over to the queue, or finalize.
RetryEnabled(config) == config.retry_on_failure /\ config.max_retries > 0

FreeCall(c) ==
    /\ calls[c].pc = "idle"
    /\ \A r \in 1..(c - 1) : calls[r].pc # "idle"

\* A call with the configs matching its event: the early return, or the first
\* iteration of its loop.
Trigger(c, batch, eventType, tweets) ==
    LET cfgs == getConfigsForEvent(configs, eventType)
        cl == [IdleCall EXCEPT !.batch = batch, !.eventType = eventType,
                               !.tweets = tweets, !.cfgs = cfgs]
    IN  IF Len(cfgs) = 0
        THEN /\ calls' = [calls EXCEPT ![c] = [cl EXCEPT !.pc = "done"]]
             /\ UNCHANGED <<logs, deliveries>>
        ELSE TriggerLoop(c, cl, 1, 1, logs, deliveries)

\* WebhookManager.triggerWebhooks, up to its first await
triggerWebhooks(c) ==
    /\ FreeCall(c)
    /\ \E a \in TriggerArgs : Trigger(c, FALSE, a[1], <<a[2]>>)
    /\ UNCHANGED <<others, now, configs, queue, isProcessing, timer, passes, nextOid, stops>>

\* WebhookManager.triggerWebhooksBatch, up to its first await
triggerWebhooksBatch(c) ==
    /\ FreeCall(c)
    /\ \E a \in BatchArgs : Trigger(c, TRUE, a[1], a[2])
    /\ UNCHANGED <<others, now, configs, queue, isProcessing, timer, passes, nextOid, stops>>

\* The loop does not wait for sendWebhook: the request goes out and the next
\* iteration starts at once.
SendWebhookSend_NoAwait(c) ==
    /\ calls[c].pc = "log"
    /\ LET cl == [calls[c] EXCEPT !.hist = Append(@, <<"send", calls[c].tweets[calls[c].ti],
                                                      calls[c].cfgs[calls[c].ci].id>>)]
       IN  TriggerLoop(c, cl, NextIndex(cl)[1], NextIndex(cl)[2], logs,
                       NoteSend(deliveries, calls[c].did))
    /\ UNCHANGED <<others, now, configs, queue, isProcessing, timer, passes, nextOid, stops>>

\* sendWebhook: db.addWebhookLog has returned, the request goes to the sender.
SendWebhookSend(c) ==
    /\ calls[c].pc = "log"
    /\ calls' = [calls EXCEPT ![c].pc = "wait",
                              ![c].hist = Append(@, <<"send", calls[c].tweets[calls[c].ti],
                                                     calls[c].cfgs[calls[c].ci].id>>)]
    /\ deliveries' = NoteSend(deliveries, calls[c].did)
    /\ UNCHANGED <<others, now, configs, logs, queue, isProcessing, timer, passes, nextOid, stops>>

\* sendWebhook: the sender has returned; the branch taken on the result, and
\* the caller's next iteration when the branch awaits nothing.
SendWebhookResponse(c, o) ==
    /\ calls[c].pc = "wait"
    /\ LET cl == calls[c]
           config == cl.cfgs[cl.ci]
           logId == cl.logId[1]
           result == send(o, DEFAULT_TIMEOUT)
           dl == NoteResult(deliveries, cl.did, result, 0)
       IN  IF result.success
           THEN /\ logs' = Stored(updateWebhookLog(logs, logId,
                               [status |-> "success", response_status |-> result.status]),
                                      logs)
                /\ calls' = [calls EXCEPT ![c].pc = IF StorageCall(dbUp) = "rejected"
                                                    THEN "threw" ELSE "upd"]
                /\ deliveries' = dl
                /\ UNCHANGED <<queue, timer, nextOid>>
           ELSE IF RetryEnabled(config)
           THEN LET q == add(queue, [oid |-> nextOid, did |-> cl.did, logId |-> logId,
                                     configId |-> config.id, url |-> config.url,
                                     headers |-> config.headers,
                                     payload |-> cl.payload[1], retryCount |-> 0,
                                     maxRetries |-> config.max_retries,
                                     nextRetryAt |-> 0], now)
                IN  /\ queue' = q
                    /\ timer' = scheduleProcessing(isProcessing, q, timer, now)
                    /\ nextOid' = nextOid + 1
                    /\ TriggerLoop(c, cl, NextIndex(cl)[1], NextIndex(cl)[2], logs,
                                   NoteAdd(dl, cl.did))
           ELSE /\ logs' = Stored(updateWebhookLog(logs, logId,
                               [status |-> "failed", error_message |-> result.error]),
                                      logs)
                /\ calls' = [calls EXCEPT ![c].pc = IF StorageCall(dbUp) = "rejected"
                                                    THEN "threw" ELSE "upd"]
                /\ deliveries' = dl
                /\ UNCHANGED <<queue, timer, nextOid>>
    /\ UNCHANGED <<others, now, configs, isProcessing, passes, stops>>

\* sendWebhook: db.updateWebhookLog has returned; the caller's next iteration.
SendWebhookAfterUpdate(c) ==
    /\ calls[c].pc = "upd"
    /\ TriggerLoop(c, calls[c], NextIndex(calls[c])[1], NextIndex(calls[c])[2],
                   logs, deliveries)
    /\ UNCHANGED <<others, now, configs, queue, isProcessing, timer, passes, nextOid, stops>>

----------------------------------------------------------------------------
(* The clock *)

Tick ==
    /\ now + TickMs <= MaxNow
    /\ now' = now + TickMs
    /\ UNCHANGED <<others, configs, logs, queue, isProcessing, timer, passes, calls,
                   nextOid, deliveries, stops>>

----------------------------------------------------------------------------
(* The pipeline *)

InitPipeline ==
    /\ now = 0
    /\ configs = Mirror
    /\ logs = <<>>
    /\ queue = <<>>
    /\ isProcessing = FALSE
    /\ timer = NoTimer
    /\ passes = [p \in 1..MaxPasses |-> IdlePass]
    /\ calls = [c \in 1..MaxCalls |-> IdleCall]
    /\ nextOid = 1
    /\ deliveries = <<>>
    /\ stops = 0

Init ==
    /\ InitPipeline
    /\ dbUp = TRUE
    /\ tests = <<>>
    /\ store = TableOf(Mirror)
    /\ ops = <<>>
    /\ fmt = None
    /\ browse = NoBrowse

Next ==
    \/ \E c \in 1..MaxCalls : triggerWebhooks(c)
    \/ \E c \in 1..MaxCalls : triggerWebhooksBatch(c)
    \/ \E c \in 1..MaxCalls : SendWebhookSend(c)
    \/ \E c \in 1..MaxCalls, o \in Outcomes : SendWebhookResponse(c, o)
    \/ \E c \in 1..MaxCalls : SendWebhookAfterUpdate(c)
    \/ TimerFire
    \/ \E p \in 1..MaxPasses, o \in Outcomes : PassResponse(p, o)
    \/ \E p \in 1..MaxPasses : PassAfterUpdate(p)
    \/ start
    \/ stop
    \/ Tick

Spec == Init /\ [][Next]_vars

----------------------------------------------------------------------------
(* add() on its own: the queue is handed items of any retry count *)

\* WebhookQueue.add, called with an item whose retryCount is rc
addCall(rc) ==
    /\ Len(queue) < MaxAdds
    /\ LET q == add(queue, [oid |-> nextOid, did |-> Len(deliveries) + 1,
                            logId |-> generateWebhookLogId("like", "t1", 0),
                            configId |-> CfgA.id, url |-> CfgA.url,
                            headers |-> CfgA.headers,
                            payload |-> formatWebhookPayload("t1", "like", 0),
                            retryCount |-> rc, maxRetries |-> rc + 1,
                            nextRetryAt |-> 0], now)
       IN  /\ queue' = q
           /\ timer' = scheduleProcessing(isProcessing, q, timer, now)
    /\ nextOid' = nextOid + 1
    /\ deliveries' = Append(deliveries, [addedAt |-> now])
    /\ UNCHANGED <<others, now, configs, logs, isProcessing, passes, calls, stops>>

NextAdd ==
    \/ \E rc \in 0..MaxRC : addCall(rc)
    \/ Tick

SpecAdd == Init /\ [][NextAdd]_vars

----------------------------------------------------------------------------
(* The pipeline left running: the queue is not stopped, the clock does not end *)

\* A deadline seen from a clock whose origin has moved on by TickMs.
Shifted(t) == Max(0, t - TickMs)

ShiftedItem(item) == [item EXCEPT !.nextRetryAt = Shifted(@)]

ShiftedItems(q) == [i \in 1..Len(q) |-> ShiftedItem(q[i])]

\* TickMs pass when the clock stands at MaxLiveNow: the origin of the clock moves
\* instead, and every deadline held by the queue, its timer and its passes is
\* TickMs nearer.
TickShift ==
    /\ now + TickMs > MaxLiveNow
    /\ queue' = ShiftedItems(queue)
    /\ timer' = IF timer = NoTimer THEN NoTimer ELSE Shifted(timer)
    /\ passes' = [p \in 1..MaxPasses |->
                     [passes[p] EXCEPT
                        !.item = IF @ = None THEN None ELSE Some(ShiftedItem(@[1])),
                        !.rest = ShiftedItems(@)]]
    /\ UNCHANGED <<others, now, configs, logs, isProcessing, calls, nextOid,
                   deliveries, stops>>

\* The clock advances, up to MaxLiveNow.
TickLive ==
    /\ now + TickMs <= MaxLiveNow
    /\ Tick

NextLive ==
    \/ \E c \in 1..MaxCalls : triggerWebhooks(c)
    \/ \E c \in 1..MaxCalls : triggerWebhooksBatch(c)
    \/ \E c \in 1..MaxCalls : SendWebhookSend(c)
    \/ \E c \in 1..MaxCalls, o \in Outcomes : SendWebhookResponse(c, o)
    \/ \E c \in 1..MaxCalls : SendWebhookAfterUpdate(c)
    \/ TimerFire
    \/ \E p \in 1..MaxPasses, o \in Outcomes : PassResponse(p, o)
    \/ \E p \in 1..MaxPasses : PassAfterUpdate(p)
    \/ start
    \/ TickLive
    \/ TickShift

\* Time passes, timers fire, every send returns and every storage call returns.
Fairness ==
    /\ WF_vars(TickLive \/ TickShift)
    /\ WF_vars(TimerFire)
    /\ \A p \in 1..MaxPasses :
          /\ WF_vars(\E o \in Outcomes : PassResponse(p, o))
          /\ WF_vars(PassAfterUpdate(p))
    /\ \A c \in 1..MaxCalls :
          /\ WF_vars(SendWebhookSend(c))
          /\ WF_vars(\E o \in Outcomes : SendWebhookResponse(c, o))
          /\ WF_vars(SendWebhookAfterUpdate(c))

SpecLive == Init /\ [][NextLive]_vars /\ Fairness

----------------------------------------------------------------------------
(* The pipeline over a record store that fails *)

\* The store starts to refuse operations (it is closed, full, or blocked).
StorageFails ==
    /\ dbUp
    /\ dbUp' = FALSE
    /\ UNCHANGED <<pipeline, tests, store, ops, fmt, browse>>

\* The store accepts operations again.
StorageRecovers ==
    /\ ~dbUp
    /\ dbUp' = TRUE
    /\ UNCHANGED <<pipeline, tests, store, ops, fmt, browse>>

NextErr ==
    \/ \E c \in 1..MaxCalls : triggerWebhooks(c)
    \/ \E c \in 1..MaxCalls : triggerWebhooksBatch(c)
    \/ \E c \in 1..MaxCalls : SendWebhookSend(c)
    \/ \E c \in 1..MaxCalls, o \in Outcomes : SendWebhookResponse(c, o)
    \/ \E c \in 1..MaxCalls : SendWebhookAfterUpdate(c)
    \/ TimerFire
    \/ \E p \in 1..MaxPasses, o \in Outcomes : PassResponse(p, o)
    \/ \E p \in 1..MaxPasses : PassAfterUpdate(p)
    \/ Tick
    \/ StorageFails
    \/ StorageRecovers

SpecErr == Init /\ [][NextErr]_vars

----------------------------------------------------------------------------
(* The sender on its own: send and testWebhook under every transport outcome *)

\* The timeouts send is called with: the default, the one test passes, a longer one.
Timeouts == {DEFAULT_TIMEOUT, 5000, 30000}

IsCallback(o) == o.kind \in {"load", "error", "timeout"}

\* Sender.send is called with options.timeout = timeout (or none: the default).
sendCall(timeout) ==
    /\ Len(tests) < MaxTests
    /\ tests' = Append(tests, [kind |-> "send", timeout |-> timeout, pc |-> "pending",
                               requests |-> 1, callbacks |-> 0, outcome |-> None,
                               result |-> None, ret |-> None])
    /\ UNCHANGED <<pipeline, dbUp, store, ops, fmt, browse>>

\* testWebhook(url, headers), up to its await of sender.test
testWebhookCall ==
    /\ Len(tests) < MaxTests
    /\ tests' = Append(tests, [kind |-> "test", timeout |-> 0, pc |-> "pending",
                               requests |-> 1, callbacks |-> 0, outcome |-> None,
                               result |-> None, ret |-> None])
    /\ UNCHANGED <<pipeline, dbUp, store, ops, fmt, browse>>

\* The transport reports (or the call of the transport throws): the promise of
\* makeRequest settles and send returns its result.
Transport(i, o) ==
    /\ tests[i].pc = "pending"
    /\ tests' = [tests EXCEPT ![i] =
                    [@ EXCEPT !.pc = "settled",
                              !.callbacks = IF IsCallback(o) THEN 1 ELSE 0,
                              !.outcome = Some(o),
                              !.result = Some(IF tests[i].kind = "test" THEN test(o)
                                              ELSE send(o, tests[i].timeout))]]
    /\ UNCHANGED <<pipeline, dbUp, store, ops, fmt, browse>>

\* The transport calls a second callback (an error after the timeout, say): the
\* promise is resolved already and resolve() has no effect.
LateCallback(i, o) ==
    /\ tests[i].pc # "pending"
    /\ tests[i].callbacks = 1
    /\ IsCallback(o)
    /\ tests' = [tests EXCEPT ![i].callbacks = 2]
    /\ UNCHANGED <<pipeline, dbUp, store, ops, fmt, browse>>

\* testWebhook after its await: the {success, message} it returns.
testWebhookReturn(i) ==
    /\ tests[i].kind = "test"
    /\ tests[i].pc = "settled"
    /\ tests' = [tests EXCEPT ![i].pc = "returned",
                              ![i].ret = Some(testWebhook(tests[i].outcome[1]))]
    /\ UNCHANGED <<pipeline, dbUp, store, ops, fmt, browse>>

NextSender ==
    \/ \E timeout \in Timeouts : sendCall(timeout)
    \/ \E i \in 1..Len(tests), o \in SenderOutcomes : Transport(i, o)
    \/ \E i \in 1..Len(tests), o \in SenderOutcomes : LateCallback(i, o)

SpecSender == Init /\ [][NextSender]_vars

\* testWebhook beside one triggerWebhooks call: a response in and out of the 2xx
\* range, a network error without status text, the timeout, and a throw with an
\* empty message.
TestOutcomes ==
    {[kind |-> "load", status |-> 204, statusText |-> ""],
     [kind |-> "load", status |-> 404, statusText |-> "text"],
     [kind |-> "error", statusText |-> ""],
     [kind |-> "timeout"],
     [kind |-> "throw", message |-> Some("")]}

NextTest ==
    \/ testWebhookCall
    \/ \E i \in 1..Len(tests), o \in TestOutcomes : Transport(i, o)
    \/ \E i \in 1..Len(tests) : testWebhookReturn(i)
    \/ triggerWebhooks(1)
    \/ SendWebhookSend(1)
    \/ \E o \in Outcomes : SendWebhookResponse(1, o)
    \/ SendWebhookAfterUpdate(1)

SpecTest == Init /\ [][NextTest]_vars

----------------------------------------------------------------------------
(* Configuration management: the table and its mirror *)

\* Table.toArray: the records in primary-key order.
RECURSIVE toArrayFrom(_, _)
toArrayFrom(T, k) ==
    IF k > Len(IdOrder) THEN <<>>
    ELSE (IF IdOrder[k] \in DOMAIN T THEN <<T[IdOrder[k]]>> ELSE <<>>)
         \o toArrayFrom(T, k + 1)

\* DatabaseManager.getWebhookConfigs
getWebhookConfigs(T) == toArrayFrom(T, 1)

\* What the promise of getWebhookConfigs is fulfilled with: the array, or
\* undefined (the return of logError) when the store refuses the read.
ReadConfigs(T, up) == IF up THEN Some(getWebhookConfigs(T)) ELSE None

\* configs || []
OrEmpty(v) == IF v = None THEN <<>> ELSE v[1]

\* DatabaseManager.addWebhookConfig: Table.put
addWebhookConfig(T, config) ==
    [id \in DOMAIN T \cup {config.id} |-> IF id = config.id THEN config ELSE T[id]]

\* DatabaseManager.updateWebhookConfig: Table.update
updateWebhookConfig(T, id, updates) ==
    IF id \in DOMAIN T
    THEN [T EXCEPT ![id] = [f \in DOMAIN T[id] |->
                              IF f \in DOMAIN updates THEN updates[f] ELSE T[id][f]]]
    ELSE T

\* DatabaseManager.deleteWebhookConfig: Table.delete
deleteWebhookConfig(T, id) == [k \in DOMAIN T \ {id} |-> T[k]]

\* The mutations the operator makes.
Mutations ==
    {[kind |-> "add", config |-> CfgB],
     [kind |-> "update", id |-> "A", updates |-> [enabled |-> FALSE]],
     [kind |-> "delete", id |-> "D"]}

\* The table after the write of mutation m.
Written(T, m) ==
    CASE m.kind = "add" -> addWebhookConfig(T, m.config)
      [] m.kind = "update" -> updateWebhookConfig(T, m.id, m.updates)
      [] OTHER -> deleteWebhookConfig(T, m.id)

\* addConfig / updateConfig / deleteConfig, up to the await of the write
Mutate(m) ==
    /\ Len(ops) < MaxOps
    /\ store' = Stored(Written(store, m), store)
    /\ ops' = Append(ops, [kind |-> m.kind, pc |-> "write", snap |-> None])
    /\ UNCHANGED <<pipeline, dbUp, tests, fmt, browse>>

\* loadConfigs called on its own (the settings panel opens), up to its await
loadConfigs ==
    /\ Len(ops) < MaxOps
    /\ ops' = Append(ops, [kind |-> "load", pc |-> "read", snap |-> None])
    /\ UNCHANGED <<pipeline, dbUp, tests, store, fmt, browse>>

\* The mirror assigned as soon as the read is carried out, before loadConfigs
\* resumes.
LoadRead_AssignsEarly(i) ==
    /\ ops[i].pc \in {"write", "read"}
    /\ ops' = [ops EXCEPT ![i].pc = "assign",
                          ![i].snap = Some(ReadConfigs(store, dbUp))]
    /\ configs' = OrEmpty(ReadConfigs(store, dbUp))
    /\ UNCHANGED <<now, logs, queue, isProcessing, timer, passes, calls, nextOid,
                   deliveries, stops, dbUp, tests, store, fmt, browse>>

\* The write has returned (for a mutation) and the read of loadConfigs is
\* carried out on the table.
LoadRead(i) ==
    /\ ops[i].pc \in {"write", "read"}
    /\ ops' = [ops EXCEPT ![i].pc = "assign",
                          ![i].snap = Some(ReadConfigs(store, dbUp))]
    /\ UNCHANGED <<pipeline, dbUp, tests, store, fmt, browse>>

\* The mirror changed in place: the arrays the calls under way iterate over
\* change with it.
LoadAssign_InPlace(i) ==
    /\ ops[i].pc = "assign"
    /\ configs' = OrEmpty(ops[i].snap[1])
    /\ calls' = [c \in 1..MaxCalls |->
                    IF calls[c].pc \in {"idle", "done"} THEN calls[c]
                    ELSE [calls[c] EXCEPT
                            !.cfgs = getConfigsForEvent(configs', calls[c].eventType)]]
    /\ ops' = [ops EXCEPT ![i].pc = "done"]
    /\ UNCHANGED <<now, logs, queue, isProcessing, timer, passes, nextOid,
                   deliveries, stops, dbUp, tests, store, fmt, browse>>

\* The read returns to loadConfigs: this.configs = configs || [], and the
\* operation completes.
LoadAssign(i) ==
    /\ ops[i].pc = "assign"
    /\ configs' = OrEmpty(ops[i].snap[1])
    /\ ops' = [ops EXCEPT ![i].pc = "done"]
    /\ UNCHANGED <<now, logs, queue, isProcessing, timer, passes, calls, nextOid,
                   deliveries, stops, dbUp, tests, store, fmt, browse>>

NextCfg ==
    \/ \E m \in Mutations : Mutate(m)
    \/ loadConfigs
    \/ \E i \in 1..Len(ops) : LoadRead(i)
    \/ \E i \in 1..Len(ops) : LoadAssign(i)

SpecCfg == Init /\ [][NextCfg]_vars

\* The edits the operator makes while deliveries are under way: a config is
\* added, its target and retry limit are changed, it is disabled, enabled, deleted.
Edits ==
    {[kind |-> "add", config |-> CfgB],
     [kind |-> "update", id |-> "A",
      updates |-> [url |-> "uA2", headers |-> "hA2", max_retries |-> 1]],
     [kind |-> "update", id |-> "A", updates |-> [enabled |-> FALSE]],
     [kind |-> "update", id |-> "C", updates |-> [enabled |-> TRUE]],
     [kind |-> "delete", id |-> "A"]}

\* The delivery pipeline with its queue running, beside configuration
\* management.
NextEdit ==
    \/ \E c \in 1..MaxCalls : triggerWebhooks(c)
    \/ \E c \in 1..MaxCalls : triggerWebhooksBatch(c)
    \/ \E c \in 1..MaxCalls : SendWebhookSend(c)
    \/ \E c \in 1..MaxCalls, o \in Outcomes : SendWebhookResponse(c, o)
    \/ \E c \in 1..MaxCalls : SendWebhookAfterUpdate(c)
    \/ TimerFire
    \/ \E p \in 1..MaxPasses, o \in Outcomes : PassResponse(p, o)
    \/ \E p \in 1..MaxPasses : PassAfterUpdate(p)
    \/ Tick
    \/ \E m \in Edits : Len(ops) < MaxEdits /\ Mutate(m)
    \/ \E i \in 1..Len(ops) : LoadRead(i)
    \/ \E i \in 1..Len(ops) : LoadAssign(i)

SpecEdit == Init /\ [][NextEdit]_vars

\* The WebhookManager as its constructor leaves it: the mirror is empty and the
\* loadConfigs the constructor has called awaits its read of the table, which
\* holds the operator's configs.
InitBoot ==
    /\ now = 0
    /\ configs = <<>>
    /\ logs = <<>>
    /\ queue = <<>>
    /\ isProcessing = FALSE
    /\ timer = NoTimer
    /\ passes = [p \in 1..MaxPasses |-> IdlePass]
    /\ calls = [c \in 1..MaxCalls |-> IdleCall]
    /\ nextOid = 1
    /\ deliveries = <<>>
    /\ stops = 0
    /\ dbUp = TRUE
    /\ tests = <<>>
    /\ store = TableOf(Mirror)
    /\ ops = <<[kind |-> "load", pc |-> "read", snap |-> None]>>
    /\ fmt = None
    /\ browse = NoBrowse

\* The interceptors call while the first load is under way; the settings panel
\* may be opened (it calls loadConfigs) at any time.
NextBoot ==
    \/ \E c \in 1..MaxCalls : triggerWebhooks(c)
    \/ \E c \in 1..MaxCalls : triggerWebhooksBatch(c)
    \/ \E c \in 1..MaxCalls : SendWebhookSend(c)
    \/ \E c \in 1..MaxCalls, o \in Outcomes : SendWebhookResponse(c, o)
    \/ \E c \in 1..MaxCalls : SendWebhookAfterUpdate(c)
    \/ loadConfigs
    \/ \E i \in 1..Len(ops) : LoadRead(i)
    \/ \E i \in 1..Len(ops) : LoadAssign(i)

SpecBoot == InitBoot /\ [][NextBoot]_vars


NextLoadErr ==
    \/ loadConfigs
    \/ \E i \in 1..Len(ops) : LoadRead(i)
    \/ \E i \in 1..Len(ops) : LoadAssign(i)
    \/ StorageFails
    \/ StorageRecovers
    \/ \E c \in 1..MaxCalls : triggerWebhooks(c)
    \/ \E c \in 1..MaxCalls : SendWebhookSend(c)
    \/ \E c \in 1..MaxCalls, o \in Outcomes : SendWebhookResponse(c, o)
    \/ \E c \in 1..MaxCalls : SendWebhookAfterUpdate(c)

SpecLoadErr == Init /\ [][NextLoadErr]_vars

----------------------------------------------------------------------------
(* The formatter *)

\* a || b for a string a that may be absent: b when a is absent or ''.
OrText(a, b) == IF a = None \/ a = Some("") THEN b ELSE a[1]

\* a || 0 for a count a that may be absent.
OrZero(a) == IF a = None THEN 0 ELSE a[1]

\* legacy?.f: the field of the legacy block, absent when the block is.
LegacyField(tweet, f) == IF tweet.legacy = None THEN None ELSE Some(tweet.legacy[1][f])

\* author?.f, for the result of tweet.core?.user_results?.result
AuthorField(tweet, f) == IF tweet.author = None THEN None ELSE Some(tweet.author[1][f])

\* extractTweetMedia followed by the map of formatMediaItems: the media of the
\* legacy block as {type, url}.
formatMediaItems(tweet) ==
    IF tweet.legacy = None THEN <<>>
    ELSE [i \in 1..Len(tweet.legacy[1].media) |->
            [type |-> tweet.legacy[1].media[i].type, url |-> tweet.legacy[1].media[i].url]]

\* formatUrls: the url entities that do not point to twitter.com/ or x.com/
formatUrls(urls) ==
    LET External(u) == u.host \notin {"twitter.com", "x.com"}
    IN  SelectSeq(urls, External)

\* formatArticle, for an article without a url entity of its own
formatArticle(article) ==
    [id |-> article.rest_id, title |-> article.title,
     preview_text |-> article.preview_text,
     url |-> <<"https://x.com/i/article/", article.rest_id>>]

\* formatQuotedTweet, for a quoted tweet that has only an id
formatQuotedTweet(q) ==
    [id |-> q.rest_id, text |-> "",
     author |-> [id |-> "", screen_name |-> "unknown", name |-> ""],
     url |-> <<"https://x.com/", "unknown", "/status/", q.rest_id>>,
     created_at |-> ""]

\* formatRetweetedTweet, for a retweeted tweet that has only an id
formatRetweetedTweet(r) ==
    [id |-> r.rest_id, text |-> "",
     author |-> [id |-> "", screen_name |-> "unknown", name |-> ""],
     url |-> <<"https://x.com/", "unknown", "/status/", r.rest_id>>,
     created_at |-> "", media |-> <<>>]

\* The counts of the legacy block, each 0 when absent.
Stats(tweet) ==
    [likes |-> OrZero(LegacyField(tweet, "favorite_count")),
     retweets |-> OrZero(LegacyField(tweet, "retweet_count")),
     replies |-> OrZero(LegacyField(tweet, "reply_count")),
     quotes |-> OrZero(LegacyField(tweet, "quote_count")),
     bookmarks |-> OrZero(LegacyField(tweet, "bookmark_count"))]

\* The fields every formatted entity has, for an entity with a legacy block or
\* an author.
FullData(tweet) ==
    LET screenName == OrText(AuthorField(tweet, "screen_name"), "unknown")
    IN  [id |-> tweet.rest_id,
         text |-> OrText(tweet.note, OrText(LegacyField(tweet, "full_text"), "")),
         author |-> [id |-> OrText(AuthorField(tweet, "rest_id"), ""),
                     screen_name |-> screenName,
                     name |-> OrText(AuthorField(tweet, "name"), "")],
         url |-> <<"https://x.com/", screenName, "/status/", tweet.rest_id>>,
         created_at |-> OrText(LegacyField(tweet, "created_at"), ""),
         stats |-> Stats(tweet),
         media |-> formatMediaItems(tweet)]

\* The blocks added when the entity has them.
OptionalBlocks(tweet) ==
    (IF tweet.legacy # None /\ tweet.legacy[1].retweeted # None
     THEN "retweeted_tweet" :> formatRetweetedTweet(tweet.legacy[1].retweeted[1])
     ELSE <<>>)
    @@ (IF tweet.quoted # None
        THEN "quoted_tweet" :> formatQuotedTweet(tweet.quoted[1]) ELSE <<>>)
    @@ (IF tweet.legacy # None /\ Len(tweet.legacy[1].urls) > 0
        THEN "urls" :> formatUrls(tweet.legacy[1].urls) ELSE <<>>)
    @@ (IF tweet.article # None
        THEN "article" :> formatArticle(tweet.article[1]) ELSE <<>>)

\* The early return for entities with only an id left out.
formatTweetData_NoMinimal(tweet) == FullData(tweet) @@ OptionalBlocks(tweet)

\* formatTweetData
formatTweetData(tweet) ==
    IF tweet.legacy = None /\ tweet.author = None
    THEN [id |-> tweet.rest_id,
          text |-> "",
          author |-> [id |-> "", screen_name |-> "unknown", name |-> ""],
          url |-> <<"https://x.com/i/status/", tweet.rest_id>>,
          created_at |-> "",
          stats |-> [likes |-> 0, retweets |-> 0, replies |-> 0, quotes |-> 0,
                     bookmarks |-> 0],
          media |-> <<>>]
    ELSE FullData(tweet) @@ OptionalBlocks(tweet)

\* formatTweetData of utils/webhook-formatter.ts: no optional blocks, and the
\* url made of the id alone for every entity.
formatTweetDataShort(tweet) ==
    LET isMinimalTweet == tweet.legacy = None /\ tweet.author = None
    IN  [id |-> tweet.rest_id,
         text |-> OrText(LegacyField(tweet, "full_text"), ""),
         author |-> IF isMinimalTweet
                    THEN [id |-> "", screen_name |-> "unknown", name |-> ""]
                    ELSE [id |-> OrText(AuthorField(tweet, "rest_id"), ""),
                          screen_name |-> OrText(AuthorField(tweet, "screen_name"), "unknown"),
                          name |-> OrText(AuthorField(tweet, "name"), "")],
         url |-> <<"https://x.com/i/status/", tweet.rest_id>>,
         created_at |-> OrText(LegacyField(tweet, "created_at"), ""),
         stats |-> Stats(tweet),
         media |-> IF isMinimalTweet THEN <<>> ELSE formatMediaItems(tweet)]

\* Legacy blocks: a filled one, and one whose fields are all empty or zero.
Legacies ==
    {[full_text |-> "hello", created_at |-> "Mon", favorite_count |-> 3,
      retweet_count |-> 1, reply_count |-> 0, quote_count |-> 0, bookmark_count |-> 2,
      media |-> <<[type |-> "photo", url |-> "m1"]>>,
      retweeted |-> Some([rest_id |-> "r1"]),
      urls |-> <<[host |-> "example.org", url |-> "s1"], [host |-> "x.com", url |-> "s2"]>>],
     [full_text |-> "", created_at |-> "", favorite_count |-> 0,
      retweet_count |-> 0, reply_count |-> 0, quote_count |-> 0, bookmark_count |-> 0,
      media |-> <<>>, retweeted |-> None, urls |-> <<>>]}

\* Authors: a filled one, and one without a screen name.
Authors ==
    {[rest_id |-> "u1", screen_name |-> "bob", name |-> "Bob"],
     [rest_id |-> "u2", screen_name |-> "", name |-> ""]}

Opt(S) == {None} \cup {Some(x) : x \in S}

\* The entities handed to the formatter: full ones, stubs with only an id, and
\* what lies between.
Tweets ==
    [rest_id : {"t1", "t2"}, legacy : Opt(Legacies), author : Opt(Authors),
     note : Opt({"long text"}),
     quoted : Opt({[rest_id |-> "q1"]}),
     article : Opt({[rest_id |-> "a1", title |-> "T", preview_text |-> "P"]})]

\* formatTweetData is applied to the entity.
Format ==
    /\ fmt.out = None
    /\ fmt' = [fmt EXCEPT !.out = Some(formatTweetData(fmt.tweet)),
                          !.short = Some(formatTweetDataShort(fmt.tweet))]
    /\ UNCHANGED <<pipeline, dbUp, tests, store, ops, browse>>

InitFormat ==
    /\ InitPipeline
    /\ dbUp = TRUE
    /\ tests = <<>>
    /\ store = TableOf(Mirror)
    /\ ops = <<>>
    /\ fmt \in [tweet : Tweets, out : {None}, short : {None}]
    /\ browse = NoBrowse

NextFormat == Format

SpecFormat == InitFormat /\ [][NextFormat]_vars

----------------------------------------------------------------------------
(* Browsing history: the interceptor and the browsing_history table *)

DEFAULT_DEDUP_WINDOW_MS == 5 * 60 * 1000
MAX_BROWSING_HISTORY_COUNT == 10000

generateBrowsingHistoryId(tweetId, timestamp) == <<"browsing-", tweetId, "-", timestamp>>

\* getRecentBrowsingHistories: the records viewed after `since`; undefined (here
\* the empty set, as `recentHistories || []` makes of it) when the read fails.
getRecentBrowsingHistories(H, since, up) ==
    IF up THEN {r \in H : r.viewed_at > since} ELSE {}

\* The oldest n records of the table leave it.
RECURSIVE DropOldest(_, _)
DropOldest(H, n) ==
    IF n = 0 \/ H = {} THEN H
    ELSE LET oldest == CHOOSE r \in H : \A x \in H : r.viewed_at <= x.viewed_at
         IN  DropOldest(H \ {oldest}, n - 1)

\* addBrowsingHistories: bulkPut by id, then the cap on the number of records.
addBrowsingHistories(H, histories) ==
    LET ids == {histories[i].id : i \in 1..Len(histories)}
        put == {r \in H : r.id \notin ids} \cup {histories[i] : i \in 1..Len(histories)}
    IN  IF Cardinality(put) > MAX_BROWSING_HISTORY_COUNT
        THEN DropOldest(put, Cardinality(put) - MAX_BROWSING_HISTORY_COUNT)
        ELSE put

\* The tweets extracted from an intercepted response.
Responses == {<<>>, <<"t1">>, <<"t1", "t1">>, <<"t1", "t2">>}

\* BrowsingHistoryInterceptor up to its first await: the tweets of the response,
\* the time, and the read of the recent records handed to the store.
Intercept(tweets) ==
    /\ Len(browse.handlers) < MaxViews
    /\ browse' = [browse EXCEPT !.handlers =
                     Append(@, [pc |-> IF Len(tweets) = 0 THEN "done" ELSE "read",
                                tweets |-> tweets, now |-> now,
                                since |-> now - DEFAULT_DEDUP_WINDOW_MS,
                                newTweets |-> <<>>])]
    /\ UNCHANGED <<pipeline, dbUp, tests, store, ops, fmt>>

\* The read returns: the tweets not seen recently; none, and the interceptor
\* returns, or their records are handed to addBrowsingHistories.
BrowseRead(i) ==
    /\ i \in 1..Len(browse.handlers)
    /\ browse.handlers[i].pc = "read"
    /\ LET h == browse.handlers[i]
           recentHistories == getRecentBrowsingHistories(browse.history, h.since, dbUp)
           recentTweetIds == {r.tweet_id : r \in recentHistories}
           Fresh(t) == t \notin recentTweetIds
           newTweets == SelectSeq(h.tweets, Fresh)
       IN  browse' = [browse EXCEPT !.handlers[i].newTweets = newTweets,
                                    !.handlers[i].pc =
                                        IF Len(newTweets) = 0 THEN "done" ELSE "put"]
    /\ UNCHANGED <<pipeline, dbUp, tests, store, ops, fmt>>

\* addBrowsingHistories is carried out; extAddTweets is handed the tweets.
BrowsePut(i) ==
    /\ i \in 1..Len(browse.handlers)
    /\ browse.handlers[i].pc = "put"
    /\ LET h == browse.handlers[i]
           histories == [k \in 1..Len(h.newTweets) |->
                            [id |-> generateBrowsingHistoryId(h.newTweets[k], h.now),
                             tweet_id |-> h.newTweets[k], viewed_at |-> h.now]]
       IN  browse' = [browse EXCEPT
                        !.history = IF dbUp THEN addBrowsingHistories(@, histories) ELSE @,
                        !.handlers[i].pc = "tweets"]
    /\ UNCHANGED <<pipeline, dbUp, tests, store, ops, fmt>>

\* extAddTweets has returned: triggerWebhooksBatch('view', newTweets).
BrowseTrigger(i) ==
    /\ i \in 1..Len(browse.handlers)
    /\ browse.handlers[i].pc = "tweets"
    /\ LET h == browse.handlers[i]
       IN  browse' = [browse EXCEPT
                        !.views = @ \o [k \in 1..Len(h.newTweets) |->
                                          [tweet_id |-> h.newTweets[k], viewed_at |-> h.now]],
                        !.handlers[i].pc = "done"]
    /\ UNCHANGED <<pipeline, dbUp, tests, store, ops, fmt>>

\* The deduplication window passes.
WindowPasses ==
    /\ now <= MaxNow
    /\ now' = now + DEFAULT_DEDUP_WINDOW_MS
    /\ UNCHANGED <<others, configs, logs, queue, isProcessing, timer, passes, calls,
                   nextOid, deliveries, stops>>

NextBrowse ==
    \/ \E tweets \in Responses : Intercept(tweets)
    \/ \E i \in 1..MaxViews : BrowseRead(i)
    \/ \E i \in 1..MaxViews : BrowsePut(i)
    \/ \E i \in 1..MaxViews : BrowseTrigger(i)
    \/ Tick
    \/ WindowPasses
    \/ StorageFails
    \/ StorageRecovers

SpecBrowse == Init /\ [][NextBrowse]_vars

----------------------------------------------------------------------------
(* The pipeline with the queue stopped and left stopped: after stop(), start() *)
(* is not called and no delivery is handed to add() from outside the queue    *)

\* start(), while the queue has not been stopped
startBeforeStop ==
    /\ stops = 0
    /\ start

\* The sender returns to sendWebhook; once the queue is stopped, only with
\* results that do not lead to add().
SendWebhookResponseNoAdd(c, o) ==
    /\ SendWebhookResponse(c, o)
    /\ stops >= 1 => queue' = queue

NextHalt ==
    \/ \E c \in 1..MaxCalls : triggerWebhooks(c)
    \/ \E c \in 1..MaxCalls : triggerWebhooksBatch(c)
    \/ \E c \in 1..MaxCalls : SendWebhookSend(c)
    \/ \E c \in 1..MaxCalls, o \in Outcomes : SendWebhookResponseNoAdd(c, o)
    \/ \E c \in 1..MaxCalls : SendWebhookAfterUpdate(c)
    \/ TimerFire
    \/ \E p \in 1..MaxPasses, o \in Outcomes : PassResponse(p, o)
    \/ \E p \in 1..MaxPasses : PassAfterUpdate(p)
    \/ startBeforeStop
    \/ stop
    \/ Tick

SpecHalt == Init /\ [][NextHalt]_vars

----------------------------------------------------------------------------
(* The pipeline left running with the queue stopped once and started again *)

\* A second configuration that retries, subscribed to the same event as A.
CfgF == [id |-> "F", url |-> "uF", headers |-> "hF", enabled |-> TRUE, events |-> {"like"},
         retry_on_failure |-> TRUE, max_retries |-> 1]

\* The mirror at start: one 'like' leaves two items pending when both sends fail.
InitResume ==
    /\ now = 0
    /\ configs = <<CfgA, CfgF>>
    /\ logs = <<>>
    /\ queue = <<>>
    /\ isProcessing = FALSE
    /\ timer = NoTimer
    /\ passes = [p \in 1..MaxPasses |-> IdlePass]
    /\ calls = [c \in 1..MaxCalls |-> IdleCall]
    /\ nextOid = 1
    /\ deliveries = <<>>
    /\ stops = 0
    /\ dbUp = TRUE
    /\ tests = <<>>
    /\ store = TableOf(<<CfgA, CfgF>>)
    /\ ops = <<>>
    /\ fmt = None
    /\ browse = NoBrowse

NextResume ==
    \/ \E c \in 1..MaxCalls : triggerWebhooks(c)
    \/ \E c \in 1..MaxCalls : SendWebhookSend(c)
    \/ \E c \in 1..MaxCalls, o \in Outcomes : SendWebhookResponse(c, o)
    \/ \E c \in 1..MaxCalls : SendWebhookAfterUpdate(c)
    \/ TimerFire
    \/ \E p \in 1..MaxPasses, o \in Outcomes : PassResponse(p, o)
    \/ \E p \in 1..MaxPasses : PassAfterUpdate(p)
    \/ start
    \/ stop
    \/ TickLive
    \/ TickShift

\* As in the pipeline left running; and start() is called once the queue has
\* been stopped.
FairnessResume ==
    /\ Fairness
    /\ WF_vars(start)

SpecResume == InitResume /\ [][NextResume]_vars /\ FairnessResume

----------------------------------------------------------------------------
(* Notions the properties use *)

Terminal == {"success", "failed"}
DeliveryIds == 1..Len(deliveries)
QueueIdx == 1..Len(queue)

\* The delivery's config lets its failed initial send go to the retry queue.
Retried(D) == D.retry_on_failure /\ D.max_retries > 0

IsPrefix(s, t) == Len(s) <= Len(t) /\ \A i \in 1..Len(s) : s[i] = t[i]

\* The ids of the enabled configs of cfgs subscribed to eventType, in order.
RECURSIVE SubscribedIds(_, _)
SubscribedIds(cfgs, eventType) ==
    IF cfgs = <<>> THEN <<>>
    ELSE (IF Head(cfgs).enabled = TRUE /\ eventType \in Head(cfgs).events
          THEN <<Head(cfgs).id>> ELSE <<>>) \o SubscribedIds(Tail(cfgs), eventType)

Range(s) == {s[i] : i \in 1..Len(s)}

----------------------------------------------------------------------------
(* C1 *)

\* The counts of C1: while every send of a delivery with retries has failed, it
\* was sent at most 1 + max_retries times and enqueued at most max_retries times.
C1_Counts ==
    \A d \in DeliveryIds :
        LET D == deliveries[d]
        IN  (Retried(D) /\ D.oks = 0) =>
               /\ D.sends <= 1 + D.max_retries
               /\ D.adds <= D.max_retries

\* The steps of C1: a failed retry that is not the last puts the item back with
\* retryCount one larger; the max_retries-th failed retry puts nothing back and
\* leaves the row 'failed', with retry_count = max_retries and the send's error.
C1_Step ==
    \A p \in 1..MaxPasses :
        (/\ passes[p].pc = "wait"
         /\ passes'[p] # passes[p]
         /\ deliveries[passes[p].item[1].did].oks = 0
         /\ deliveries'[passes[p].item[1].did].fails
               = deliveries[passes[p].item[1].did].fails + 1)
        => LET item == passes[p].item[1]
               D == deliveries'[item.did]
               old == {queue[i].oid : i \in QueueIdx}
               back == {i \in 1..Len(queue') :
                          queue'[i].did = item.did /\ queue'[i].oid \notin old}
           IN  IF item.retryCount + 1 < D.max_retries
               THEN /\ Cardinality(back) = 1
                    /\ \A i \in back : queue'[i].retryCount = item.retryCount + 1
               ELSE /\ back = {}
                    /\ item.logId \in DOMAIN logs'
                    /\ logs'[item.logId].status = "failed"
                    /\ logs'[item.logId].retry_count = D.max_retries
                    /\ logs'[item.logId].error_message = D.lastError

\* C1: a delivery with retry_on_failure and max_retries = m > 0 whose every send
\* fails is retried exactly m times: the first m-1 failed retries re-enqueue it
\* with retryCount + 1, the m-th removes it for good and sets the row to 'failed'
\* with retry_count = m and the last error; there is never an (m+1)-th enqueue.
C1_Exhaustion == []C1_Counts /\ [][C1_Step]_vars

(* C2 *)

\* C2: when the k-th retry (k >= 1) is the first send of a delivery to succeed,
\* its one log row is 'success' with the status of that retry and
\* retry_count = k, no item of it is left in the queue and it is not sent again.
C2_SuccessAfterRetry ==
    \A d \in DeliveryIds :
        LET D == deliveries[d]
        IN  (D.okAt # None /\ D.okAt # Some(0)) =>
               /\ D.okAt[1] <= D.max_retries
               /\ D.logId \in DOMAIN logs
               /\ logs[D.logId].status = "success"
               /\ logs[D.logId].response_status = D.okStatus
               /\ logs[D.logId].retry_count = D.okAt[1]
               /\ \A i \in QueueIdx : queue[i].did # d
               /\ D.sends = D.okAt[1] + 1

(* C3 *)

\* min(1000 * 2^retryCount, 300000), written out.
BackoffMs(retryCount) ==
    IF 1000 * 2^retryCount <= 300000 THEN 1000 * 2^retryCount ELSE 300000

\* C3: add() sets nextRetryAt to the time of the call plus
\* min(1000 * 2^retryCount, 300000): 1000, 2000, 4000, 8000, ... ms, at most
\* 300000 ms, and never less for a larger retryCount.
C3_Backoff ==
    /\ \A i \in QueueIdx :
          LET delay == queue[i].nextRetryAt - deliveries[queue[i].did].addedAt
          IN  /\ delay = BackoffMs(queue[i].retryCount)
              /\ delay <= 300000
              /\ queue[i].retryCount = 0 => delay = 1000
              /\ queue[i].retryCount = 3 => delay = 8000
              /\ queue[i].retryCount = 10 => delay = 300000
    /\ \A i, j \in QueueIdx :
          queue[i].retryCount <= queue[j].retryCount =>
             queue[i].nextRetryAt - deliveries[queue[i].did].addedAt
                <= queue[j].nextRetryAt - deliveries[queue[j].did].addedAt

\* An item added below the cap after the clock has moved, and one at the cap.
C3_Witness ==
    \E i, j \in QueueIdx :
        /\ queue[i].retryCount = 3
        /\ deliveries[queue[i].did].addedAt > 0
        /\ queue[i].nextRetryAt = deliveries[queue[i].did].addedAt + 8000
        /\ queue[j].retryCount = 10
        /\ queue[j].nextRetryAt = deliveries[queue[j].did].addedAt + 300000

(* C4 *)

\* C4: a delivery is sent at most 1 + max_retries times, the initial attempt
\* included, and at most once when its config has retry_on_failure = false or
\* max_retries = 0.
C4_SendBound ==
    \A d \in DeliveryIds :
        LET D == deliveries[d]
        IN  /\ D.sends <= 1 + D.max_retries
            /\ ~Retried(D) => D.sends <= 1

(* C5 *)

\* C5: a row that is 'success' or 'failed' keeps its status in every step.
C5_StatusTransitions ==
    [][\A id \in DOMAIN logs :
          logs[id].status \in Terminal =>
             id \in DOMAIN logs' /\ logs'[id].status = logs[id].status]_vars

(* C6 *)

\* C6: a finalizing write to a row that is already 'success' or 'failed' leaves
\* its status as it was.
C6_FinalizeIdempotent ==
    [][\A id \in DOMAIN logs :
          (/\ logs[id].status \in Terminal
           /\ id \in DOMAIN logs'
           /\ logs'[id] # logs[id]
           /\ logs'[id].status \in Terminal)
          => logs'[id].status = logs[id].status]_vars

(* C7 *)

\* C7: every item in the queue has 0 <= retryCount < maxRetries.
C7_RetryCountBelowMax ==
    \A i \in QueueIdx :
        /\ queue[i].retryCount >= 0
        /\ queue[i].retryCount < queue[i].maxRetries

\* An item put back by processQueue beside one enqueued by sendWebhook.
C7_Witness ==
    \E i, j \in QueueIdx :
        /\ queue[i].retryCount = 1
        /\ queue[j].retryCount = 0
        /\ deliveries[queue[i].did].fails = 2
        /\ deliveries[queue[j].did].fails = 1

(* C8 *)

\* C8: a finished triggerWebhooks call has made one initial send to each enabled
\* config subscribed to its event and to no other, and has left one log row per
\* such config; with no such config it has sent nothing and written no row.
C8_FanOut ==
    \A c \in 1..MaxCalls :
        (calls[c].pc = "done" /\ ~calls[c].batch) =>
           LET mine == {d \in DeliveryIds : deliveries[d].call = c}
               ids == Range(SubscribedIds(configs, calls[c].eventType))
           IN  /\ \A d \in mine : deliveries[d].configId \in ids
               /\ \A id \in ids :
                     /\ Cardinality({d \in mine : deliveries[d].configId = id}) = 1
                     /\ \A d \in mine : deliveries[d].configId = id =>
                                           deliveries[d].sends >= 1
               /\ Cardinality({deliveries[d].logId : d \in mine} \cap DOMAIN logs)
                     = Cardinality(ids)

(* C9 *)

\* C9: two invocations of sendWebhook never allocate the same log id.
C9_UniqueLogIds ==
    \A d, e \in DeliveryIds :
        d # e => deliveries[d].logId # deliveries[e].logId

(* C10 *)

\* The 'pending' row and the initial send of each (tweet, config), tweets outer.
BatchOrder(tweets, ids) ==
    [k \in 1..(2 * Len(tweets) * Len(ids)) |->
        <<IF k % 2 = 1 THEN "log" ELSE "send",
          tweets[(((k - 1) \div 2) \div Len(ids)) + 1],
          ids[(((k - 1) \div 2) % Len(ids)) + 1]>>]

\* C10: the 'pending' rows and initial sends of a triggerWebhooksBatch call come
\* in the order (e1,c1), (e1,c2), ..., (e2,c1), (e2,c2), ...: tweets in argument
\* order, configs in mirror order.
C10_BatchOrder ==
    \A c \in 1..MaxCalls :
        (calls[c].pc # "idle" /\ calls[c].batch) =>
           LET order == BatchOrder(calls[c].tweets,
                                   SubscribedIds(configs, calls[c].eventType))
           IN  /\ IsPrefix(calls[c].hist, order)
               /\ calls[c].pc = "done" => calls[c].hist = order

\* A finished batch call over two tweets and two matching configs.
C10_Witness ==
    \E c \in 1..MaxCalls :
        /\ calls[c].pc = "done"
        /\ calls[c].batch
        /\ Len(calls[c].tweets) = 2
        /\ Len(calls[c].cfgs) = 2
        /\ Len(calls[c].hist) = 8

(* C11 *)

\* The deliveries made by call c.
DeliveriesOf(c) == {d \in DeliveryIds : deliveries[d].call = c}

\* The initial send of delivery d is with the transport and has not returned.
InitialInFlight(d) ==
    deliveries[d].sends >= 1 /\ deliveries[d].oks + deliveries[d].fails = 0

\* At no moment are two initial sends of one call in flight, and every delivery
\* of the call but the one it is working on has its result.
C11_OneInFlight ==
    \A c \in 1..MaxCalls :
        /\ Cardinality({d \in DeliveriesOf(c) : InitialInFlight(d)}) <= 1
        /\ \A d \in DeliveriesOf(c) :
              d # calls[c].did => deliveries[d].oks + deliveries[d].fails >= 1

\* A call leaves the delivery it is working on (for the next log write, or to
\* return) only in the step in which db.updateWebhookLog returns to it, or in the
\* step in which the failed send's item is pushed on the queue.
C11_Step ==
    \A c \in 1..MaxCalls :
        (calls[c].did # 0 /\ calls'[c].did # calls[c].did) =>
           LET d == calls[c].did
               D == deliveries'[d]
           IN  /\ D.oks + D.fails >= 1
               /\ \/ calls[c].pc = "upd"
                  \/ /\ calls[c].pc = "wait"
                     /\ D.adds = 1
                     /\ \E i \in 1..Len(queue') :
                           queue'[i].did = d /\ queue'[i].retryCount = 0

\* C11: within one triggerWebhooks or triggerWebhooksBatch call, the log write
\* and the send for config N+1 do not start until the send for config N has
\* returned and its log update (or its enqueue) has completed; two initial sends
\* of the same call are never in flight together.
C11_Sequential == []C11_OneInFlight /\ [][C11_Step]_vars

\* The call waits for its third config, after one delivery went to the queue
\* and one was finalized.
C11_Witness ==
    \E c \in 1..MaxCalls :
        /\ calls[c].pc = "wait"
        /\ calls[c].ci = 3
        /\ \E d, e \in DeliveriesOf(c) :
              /\ deliveries[d].adds = 1
              /\ deliveries[e].adds = 0 /\ deliveries[e].oks = 1
        /\ InitialInFlight(calls[c].did)

(* C12 *)

\* No queue item belongs to a config with retry_on_failure = false or
\* max_retries = 0, nor to a delivery whose initial send succeeded.
C12_NoItem ==
    \A d \in DeliveryIds :
        (~Retried(deliveries[d]) \/ deliveries[d].okAt = Some(0)) =>
           /\ deliveries[d].adds = 0
           /\ \A i \in QueueIdx : queue[i].did # d

\* The step in which the initial send of a delivery fails.
C12_Step ==
    \A c \in 1..MaxCalls :
        (/\ calls[c].pc = "wait"
         /\ deliveries'[calls[c].did].fails = deliveries[calls[c].did].fails + 1)
        => LET d == calls[c].did
               D == deliveries'[d]
               old == {queue[i].oid : i \in QueueIdx}
               new == {i \in 1..Len(queue') : queue'[i].oid \notin old}
           IN  IF D.retry_on_failure /\ D.max_retries > 0
               THEN /\ Cardinality(new) = 1
                    /\ \A i \in new : /\ queue'[i].did = d
                                       /\ queue'[i].logId = D.logId
                                       /\ queue'[i].retryCount = 0
                                       /\ queue'[i].maxRetries = D.max_retries
                    /\ D.logId \in DOMAIN logs'
                    /\ logs'[D.logId].status = "pending"
               ELSE /\ new = {}
                    /\ D.logId \in DOMAIN logs'
                    /\ logs'[D.logId].status = "failed"
                    /\ logs'[D.logId].error_message = D.lastError
                    /\ logs'[D.logId].retry_count = 0

\* C12: when the initial send of a delivery fails and the config has
\* retry_on_failure and max_retries > 0, exactly one item with retryCount 0 and
\* maxRetries = max_retries goes on the queue and the row stays 'pending';
\* otherwise nothing goes on the queue and the row becomes 'failed' with the
\* send's error and retry_count still 0. No item is ever made for a config with
\* retry_on_failure = false or max_retries = 0, nor after a successful initial
\* send.
C12_InitialFailure == []C12_NoItem /\ [][C12_Step]_vars

(* C13 *)

TestIdx == 1..Len(tests)

\* The transport reported a response with a status in [200, 300).
Is2xx(o) == IF o.kind = "load" THEN o.status \in 200..299 ELSE FALSE

\* C13: Sender.send returns success = true exactly when the transport reports a
\* response (onload) with 200 <= status < 300; for every other outcome (another
\* status, onerror, ontimeout, an exception of the call) success = false.
C13_SuccessIff2xx ==
    \A i \in TestIdx :
        (tests[i].kind = "send" /\ tests[i].pc # "pending") =>
           (tests[i].result[1].success <=> Is2xx(tests[i].outcome[1]))

\* A send that returned success for the last status of the range.
C13_Witness ==
    \E i \in TestIdx :
        /\ tests[i].kind = "send"
        /\ tests[i].pc = "settled"
        /\ tests[i].outcome[1].kind = "load"
        /\ tests[i].outcome[1].status = 299
        /\ tests[i].result[1].success

(* C14 *)

\* Every send that the transport has answered (or whose transport call threw)
\* has returned a result; a failed result carries a non-empty error, a
\* successful one none.
C14_Result ==
    \A i \in TestIdx :
        (tests[i].kind = "send" /\ tests[i].outcome # None) =>
           /\ tests[i].pc = "settled"
           /\ tests[i].result # None
           /\ tests[i].result[1].success \in BOOLEAN
           /\ IF tests[i].result[1].success
              THEN tests[i].result[1].error = None
              ELSE /\ tests[i].result[1].error # None
                   /\ ~IsEmptyText(tests[i].result[1].error[1])

\* A result, once returned, is the result for good.
C14_Once ==
    \A i \in TestIdx :
        tests[i].result # None => tests'[i].result = tests[i].result

\* C14: Sender.send never throws or rejects: for every transport outcome, an
\* exception of the transport call included, it resolves exactly once with a
\* result; every result with success = false carries a non-empty error string
\* and every result with success = true carries no error.
C14_NeverThrows == []C14_Result /\ [][C14_Once]_vars

\* The transport call threw an Error with an empty message.
C14_Witness ==
    \E i \in TestIdx :
        /\ tests[i].kind = "send"
        /\ tests[i].outcome = Some([kind |-> "throw", message |-> Some("")])
        /\ tests[i].result[1].error = Some(<<"Failed to send request">>)

(* C19 *)

\* What a testWebhook call has returned.
C19_Return ==
    \A i \in TestIdx :
        (tests[i].kind = "test" /\ tests[i].pc = "returned") =>
           LET o == tests[i].outcome[1]
               result == tests[i].result[1]
               ret == tests[i].ret[1]
           IN  /\ tests[i].requests = 1
               /\ ret.success = result.success
               /\ ret.success <=> Is2xx(o)
               /\ ret.success =>
                     ret.message = <<"Webhook test successful (HTTP ", o.status, ")">>
               /\ ~ret.success => ret.message = result.error[1]
               /\ o.kind = "timeout" =>
                     ret.message = <<"Request timeout after ", 5000, "ms">>

\* The steps of a testWebhook call leave the log rows, the queue and the
\* mirror as they are.
C19_Frame ==
    tests' # tests => logs' = logs /\ queue' = queue /\ configs' = configs

\* C19: testWebhook(url, headers) performs exactly one send, with timeout
\* 5000 ms, and returns success equal to the send's success, with the message
\* 'Webhook test successful (HTTP <status>)' on success and the send's error
\* string on failure; it writes no log row, adds no queue item and does not
\* change the mirror, whatever the outcome.
C19_TestWebhook == []C19_Return /\ [][C19_Frame]_vars

\* A test that timed out has returned, beside a pending row and a queued item
\* left by a triggerWebhooks call.
C19_Witness ==
    \E i \in TestIdx :
        /\ tests[i].kind = "test"
        /\ tests[i].pc = "returned"
        /\ tests[i].outcome[1].kind = "timeout"
        /\ ~tests[i].ret[1].success
        /\ Len(queue) = 1
        /\ DOMAIN logs # {}

(* C15 *)

Pending(d) ==
    \/ \E i \in QueueIdx : queue[i].did = d
    \/ \E p \in 1..MaxPasses :
          \/ passes[p].item # None /\ passes[p].item[1].did = d
          \/ \E i \in 1..Len(passes[p].rest) : passes[p].rest[i].did = d

\* Delivery d went to the queue.
Queued(d) == d \in DeliveryIds /\ deliveries[d].adds >= 1

\* Delivery d has left the queue for good and its row is 'success' or 'failed'.
Settled(d) ==
    /\ d \in DeliveryIds
    /\ ~Pending(d)
    /\ deliveries[d].logId \in DOMAIN logs
    /\ logs[deliveries[d].logId].status \in Terminal

\* C16: with the queue never stopped and every send returning, every item
\* added to the queue eventually leaves it and the row it references
\* eventually is 'success' or 'failed', also when it was added while a pass
\* was in flight.
C16_QueueDrains ==
    \A d \in 1..(4 * MaxCalls) : Queued(d) ~> Settled(d)

\* An item was added while a pass was in flight, and its delivery is settled
\* after its last retry failed.
C16_Witness ==
    \E d \in DeliveryIds :
        /\ Settled(d)
        /\ deliveries[d].fails = 1 + deliveries[d].max_retries
        /\ \E e \in DeliveryIds : e # d /\ Settled(e) /\ deliveries[e].adds >= 1

(* C17 *)

\* C17: after addConfig, updateConfig or deleteConfig has completed, the mirror
\* equals the contents of the configuration table with that write, also when
\* mutations and loadConfigs calls were in flight together and their reads
\* completed in any order. Stated for the moments at which a mutation has
\* completed and no configuration operation is in flight.
C17_MirrorMatchesStore ==
    (/\ \E i \in 1..Len(ops) : ops[i].kind # "load"
     /\ \A i \in 1..Len(ops) : ops[i].pc = "done")
    => configs = getWebhookConfigs(store)

(* C18 *)

\* C18: the retry_count of a log row never decreases: it is 0 when the row is
\* created and every later write leaves it equal or larger.
C18_RetryCountMonotone ==
    [][/\ \A id \in DOMAIN logs :
             id \in DOMAIN logs' /\ logs'[id].retry_count >= logs[id].retry_count
       /\ \A id \in DOMAIN logs' \ DOMAIN logs : logs'[id].retry_count = 0]_vars

(* C20 *)

\* The entity has only an id.
OnlyId(tweet) ==
    /\ tweet.legacy = None /\ tweet.author = None /\ tweet.note = None
    /\ tweet.quoted = None /\ tweet.article = None

\* The data of an entity with only the id given.
MinimalData(id) ==
    [id |-> id, text |-> "",
     author |-> [id |-> "", screen_name |-> "unknown", name |-> ""],
     created_at |-> "",
     stats |-> [likes |-> 0, retweets |-> 0, replies |-> 0, quotes |-> 0, bookmarks |-> 0],
     media |-> <<>>,
     url |-> <<"https://x.com/i/status/", id>>]

\* C20: formatting an entity that has only an id never fails and yields
\* id = the entity's id, text = '', author = {id: '', screen_name: 'unknown',
\* name: ''}, created_at = '', the five stats 0, media = [],
\* url = 'https://x.com/i/status/<id>', and none of retweeted_tweet,
\* quoted_tweet, urls, article.
C20_MinimalEntity ==
    (fmt # None /\ fmt.out # None /\ OnlyId(fmt.tweet)) =>
       /\ fmt.out[1] = MinimalData(fmt.tweet.rest_id)
       /\ fmt.short[1] = MinimalData(fmt.tweet.rest_id)
       /\ DOMAIN fmt.out[1] \cap {"retweeted_tweet", "quoted_tweet", "urls", "article"} = {}

\* An entity with only an id has been formatted.
C20_Witness ==
    /\ fmt # None
    /\ fmt.out # None
    /\ OnlyId(fmt.tweet)
    /\ fmt.tweet.rest_id = "t2"
    /\ fmt.out[1].url = <<"https://x.com/i/status/", "t2">>

(* C21 *)

\* Two views lie at least a deduplication window apart.
WindowApart(a, b) ==
    \/ a.viewed_at - b.viewed_at >= DEFAULT_DEDUP_WINDOW_MS
    \/ b.viewed_at - a.viewed_at >= DEFAULT_DEDUP_WINDOW_MS

\* The records of the table for one tweet lie a window apart.
RecordsApart ==
    \A r1, r2 \in browse.history :
        (r1 # r2 /\ r1.tweet_id = r2.tweet_id) => WindowApart(r1, r2)

\* The 'view' triggers for one tweet lie a window apart.
ViewsApart ==
    \A i, j \in 1..Len(browse.views) :
        (i < j /\ browse.views[i].tweet_id = browse.views[j].tweet_id) =>
            WindowApart(browse.views[i], browse.views[j])

\* C21: browsing history is deduplicated over a 5-minute window: a tweet that
\* has a record viewed within the last 5 minutes is not recorded again and
\* triggers no further 'view' webhook, whatever the sequence and interleaving of
\* intercepted responses (two responses with the same tweet handled together,
\* one response listing the tweet twice).
C21_Deduplicated == RecordsApart /\ ViewsApart

(* C22 *)

\* The processQueue passes that have begun and not yet finished.
ActivePasses == {p \in 1..MaxPasses : passes[p].pc # "idle"}

\* C22: at most one processQueue pass is active at any time, in every
\* interleaving of timer fires, add(), start() and stop(), also with stop() and
\* start() called while a pass awaits a delivery: no pass begins while an
\* earlier one has not finished.
C22_OnePass == Cardinality(ActivePasses) <= 1

(* C23 *)

\* Pass p hands an item to the Sender in this step.
HandsOver(p) ==
    /\ passes'[p].pc = "wait"
    /\ \/ passes[p].pc # "wait"
       \/ passes'[p].item[1].oid # passes[p].item[1].oid

\* An item is pending from its add() until a pass removes it to send it, so an
\* item handed to the Sender while it is not pending is one that was removed and
\* sent before.
C23_Step ==
    \A p \in 1..MaxPasses :
        HandsOver(p) => \E i \in QueueIdx : queue[i].oid = passes'[p].item[1].oid

\* C23: every item placed in the pending set by one add() call is handed to the
\* Sender at most once, in every interleaving of timer fires, triggerWebhooks
\* calls, start() and stop(): a slow delivery attempt never makes the same
\* pending item go out twice.
C23_SentOnce == [][C23_Step]_vars

(* C24 *)

\* The item is in the pending set.
IsPending(item) == \E i \in QueueIdx : queue[i].oid = item.oid

\* C24: in a processing pass that selects two or more due items, all selected
\* items have left the pending set before the first delivery attempt: while the
\* pass awaits the Sender for one item, no other item it selected is still
\* pending.
C24_SnapshotRemoved ==
    \A p \in 1..MaxPasses :
        passes[p].pc = "wait" =>
            \A k \in 1..Len(passes[p].rest) : ~IsPending(passes[p].rest[k])

(* C25 *)

\* With the queue stopped, no timer is pending.
C25_NoTimer == stops >= 1 => timer = NoTimer

\* With the queue stopped, no pass begins.
C25_Step == stops >= 1 => ActivePasses' \subseteq ActivePasses

\* C25: after stop() returns, no new processing pass starts and no timer is
\* pending until start() or an add() from outside occurs, also when stop() was
\* called while a pass was awaiting a delivery: the pass finishing, or putting
\* a failed item back, does not re-arm the timer.
C25_StaysStopped == []C25_NoTimer /\ [][C25_Step]_vars

(* C26 *)

\* Pass p is under way: it awaits the sender or the log store.
Running(p) == passes[p].pc \in {"wait", "upd"}

\* The flag is set only while a pass is under way, and with items pending a
\* pass is under way or a timer is pending to start one.
C26_NoWedge ==
    /\ isProcessing => \E p \in 1..MaxPasses : Running(p)
    /\ queue # <<>> =>
          \/ \E p \in 1..MaxPasses : Running(p)
          \/ ~isProcessing /\ timer # NoTimer

\* A pass that ends, in whatever way, leaves the flag cleared and, with items
\* pending, the timer armed.
C26_Step ==
    \A p \in 1..MaxPasses :
        (Running(p) /\ ~Running(p)') =>
            /\ ~isProcessing'
            /\ queue' # <<>> => timer' # NoTimer

Scheduling ==
    \/ start
    \/ \E c \in 1..MaxCalls, o \in Outcomes : SendWebhookResponse(c, o) /\ queue' # queue
    \/ TimerFire
    \/ \E p \in 1..MaxPasses : PassAfterUpdate(p) \/ \E o \in Outcomes : PassResponse(p, o)

\* The timer tm is aimed at the least nextRetryAt of the pending set q, and fires
\* at once when that time is past.
Aimed(tm, q, t) ==
    \E i \in 1..Len(q) :
        /\ \A j \in 1..Len(q) : q[i].nextRetryAt <= q[j].nextRetryAt
        /\ tm = Max(t, q[i].nextRetryAt)

\* After add(), start() or the end of a pass, with no pass active: the timer is
\* aimed at the earliest pending item; with nothing pending, no timer is armed
\* that was not pending before.
C27_Step ==
    (Scheduling /\ ActivePasses' = {}) =>
        IF queue' # <<>>
        THEN Aimed(timer', queue', now)
        ELSE timer' \in {timer, NoTimer}

\* C27: whenever add() or start() returns, or a processing pass ends, with no
\* pass active and a non-empty pending set, one timer is pending and it is aimed
\* at the minimum nextRetryAt over all pending items (at once if that time is
\* past); with an empty pending set no new timer is armed.
C27_TimerAimed == [][C27_Step]_vars

\* Two items with different retry times are pending, no pass is active, and
\* the timer is aimed at the earlier one, which was not pushed first.
C27_Witness ==
    /\ ActivePasses = {}
    /\ Len(queue) = 2
    /\ queue[2].nextRetryAt < queue[1].nextRetryAt
    /\ timer = queue[2].nextRetryAt
    /\ now < timer

(* C28 *)

\* An item handed to the Sender is due, the items a pass selects when it begins
\* are due at that time, and an item leaves the pending set only by being
\* handed to the Sender.
C28_Step ==
    /\ \A p \in 1..MaxPasses :
          HandsOver(p) => passes'[p].item[1].nextRetryAt <= now
    /\ \A p \in 1..MaxPasses :
          (passes[p].pc = "idle" /\ passes'[p].pc = "wait") =>
              \A k \in 1..Len(passes'[p].rest) : passes'[p].rest[k].nextRetryAt <= now
    /\ \A i \in QueueIdx :
          (\A j \in 1..Len(queue') : queue'[j] # queue[i]) =>
              \E p \in 1..MaxPasses : HandsOver(p) /\ passes'[p].item[1] = queue[i]

\* C28: the Retry Queue never sends an item before its nextRetryAt: every retry
\* send happens in a pass whose time snapshot satisfies nextRetryAt <= now, and
\* the items not yet due at the snapshot stay in the pending set, untouched by
\* the pass.
C28_NotBeforeDue == [][C28_Step]_vars

\* A pass awaits the send of a due item while an item that is not yet due is
\* pending.
C28_Witness ==
    \E p \in 1..MaxPasses :
        /\ passes[p].pc = "wait"
        /\ passes[p].item[1].nextRetryAt <= now
        /\ \E i \in QueueIdx : queue[i].nextRetryAt > now

(* C29 *)

\* A call of stop(): no timer and no flag after it, the pending set as before.
C29_Step ==
    stops' # stops =>
        /\ timer' = NoTimer
        /\ ~isProcessing'
        /\ Len(queue') = Len(queue)
        /\ \A i \in QueueIdx : queue'[i] = queue[i]

\* C29: stop() cancels the pending timer and clears the processing flag but
\* leaves the pending set unchanged: the queue's size and every pending item,
\* with its retryCount and nextRetryAt, are the same right after stop() as right
\* before.
C29_StopKeepsQueue == [][C29_Step]_vars

\* The queue was stopped while a pass was awaiting a delivery, and an item that
\* has been retried before is still pending.
C29_Witness ==
    /\ stops = 1
    /\ timer = NoTimer
    /\ ~isProcessing
    /\ \E p \in 1..MaxPasses : Running(p)
    /\ \E i \in QueueIdx : queue[i].retryCount >= 1

(* C30 *)

\* The item pushed as the k-th is pending.
PendingOid(k) == \E i \in QueueIdx : queue[i].oid = k

\* start() on a stopped queue: with items pending the timer is aimed at the
\* earliest of them, with none no timer is armed; the items stay as they are.
C30_Step ==
    (start /\ stops >= 1 /\ ~isProcessing) =>
        /\ queue' = queue
        /\ IF queue # <<>> THEN Aimed(timer', queue, now) ELSE timer' = NoTimer

\* An item pending while the queue has been stopped is handed to the Sender in
\* the end.
C30_Retried ==
    \A k \in 1..(5 * MaxCalls) : (stops >= 1 /\ PendingOid(k)) ~> ~PendingOid(k)

\* C30: after stop() followed by start() with a non-empty pending set the queue
\* resumes: a timer is armed at the earliest nextRetryAt (at once for overdue
\* items) and every item that was pending at stop() is eventually retried, its
\* retryCount and nextRetryAt unchanged by the stop/start pair; start() on an
\* empty pending set arms no timer.
C30_Resumes == [][C30_Step]_vars /\ C30_Retried

\* The queue was stopped with two items pending and started again when both
\* were overdue: the timer fires at once.
C30_Witness ==
    /\ stops = 1
    /\ ActivePasses = {}
    /\ ~isProcessing
    /\ Len(queue) = 2
    /\ \A i \in QueueIdx : queue[i].retryCount = 0 /\ queue[i].nextRetryAt < now
    /\ timer = now

(* C31 *)

\* Item x was added to the queue before item y: add() pushes them one after
\* the other.
AddedBefore(x, y) == x.oid < y.oid

\* When a pass hands an item to the Sender, the items of its snapshot with the
\* same nextRetryAt that it has yet to send were added after it, and the one it
\* sent just before, if it has the same nextRetryAt, was added before it.
C31_Step ==
    \A p \in 1..MaxPasses :
        HandsOver(p) =>
            LET x == passes'[p].item[1]
                rest == passes'[p].rest
            IN  /\ \A k \in 1..Len(rest) :
                      rest[k].nextRetryAt = x.nextRetryAt => AddedBefore(x, rest[k])
                /\ (passes[p].pc # "idle" /\ passes[p].item[1].nextRetryAt = x.nextRetryAt)
                      => AddedBefore(passes[p].item[1], x)

\* C31: within one processing pass, due items with equal nextRetryAt are sent
\* in the order in which they were added to the queue.
C31_InsertionOrder == [][C31_Step]_vars

\* A pass awaits the send of the first of two due items with the same
\* nextRetryAt; the second, added after it, is sent next.
C31_Witness ==
    \E p \in 1..MaxPasses :
        /\ passes[p].pc = "wait"
        /\ Len(passes[p].rest) = 1
        /\ passes[p].rest[1].nextRetryAt = passes[p].item[1].nextRetryAt
        /\ passes[p].rest[1].did # passes[p].item[1].did

(* C32 *)

\* sendWebhook begins for call c in this step: it makes a new delivery.
BeginsDelivery(c) == calls'[c].pc = "log" /\ calls'[c].did = Len(deliveries) + 1

\* sendWebhook puts the 'pending' row when it begins, the row is there when the
\* Sender is invoked, and a successful initial send leaves the row 'success'
\* with the response status and retry_count 0.
C32_Step ==
    \A c \in 1..MaxCalls :
        /\ BeginsDelivery(c) =>
              LET id == calls'[c].logId[1]
              IN  /\ id \in DOMAIN logs'
                  /\ logs'[id].status = "pending"
                  /\ logs'[id].retry_count = 0
                  /\ logs'[id].request_payload = calls'[c].payload[1]
        /\ (calls[c].pc = "log" /\ calls'[c].pc = "wait") =>
              /\ calls[c].logId[1] \in DOMAIN logs
              /\ logs[calls[c].logId[1]].request_payload = calls[c].payload[1]
        /\ (/\ calls[c].pc = "wait"
            /\ deliveries'[calls[c].did].oks = deliveries[calls[c].did].oks + 1) =>
              LET id == calls[c].logId[1]
              IN  /\ id \in DOMAIN logs'
                  /\ logs'[id].status = "success"
                  /\ logs'[id].response_status = deliveries'[calls[c].did].okStatus
                  /\ logs'[id].retry_count = 0

\* C32: for every delivery, sendWebhook writes a log row with status 'pending',
\* retry_count 0 and the serialized payload, and that write has completed
\* before the Sender is invoked for the delivery; on a successful initial send
\* the row then becomes 'success' with the response status and retry_count 0.
C32_PendingThenSuccess == [][C32_Step]_vars

(* C33 *)

\* The Sender returns to pass p in this step: a retry attempt completes.
RetryCompletes(p) == passes[p].pc = "wait" /\ passes'[p] # passes[p]

\* The item of pass p has retryCount j - 1 when its j-th retry attempt is made.
C33_Step ==
    \A p \in 1..MaxPasses :
        RetryCompletes(p) =>
            LET item == passes[p].item[1]
            IN  /\ item.logId \in DOMAIN logs'
                /\ logs'[item.logId].retry_count = item.retryCount + 1

\* C33: after every retry attempt made by the Retry Queue completes, whatever
\* its outcome (success, failure followed by re-enqueue, or failure with
\* retries exhausted), the DeliveryLog row of that item has been updated by the
\* queue, so after j completed retry attempts the row's retry_count is j.
C33_RowFollowsRetries == [][C33_Step]_vars

(* C34 *)

\* loadConfigs number i completes in this step after a read the store refused.
FailedLoadCompletes(i) ==
    ops[i].pc = "assign" /\ ops'[i].pc = "done" /\ ops[i].snap[1] = None

\* A failed load leaves the mirror as it was, and a call that begins delivers to
\* the subscribed configs loaded before (the table is not edited here, so those
\* of Mirror).
C34_Step ==
    /\ \A i \in 1..Len(ops) : FailedLoadCompletes(i) => configs' = configs
    /\ \A c \in 1..MaxCalls :
          (calls[c].pc = "idle" /\ calls'[c].pc # "idle") =>
              calls'[c].cfgs = getConfigsForEvent(Mirror, calls'[c].eventType)

\* C34: a storage error during loadConfigs has no effect on the pipeline's
\* state: when the read of the config store fails, the in-memory config mirror
\* keeps the value it had before the call (it is not emptied), so later events
\* are still delivered to the previously loaded configs.
C34_FailedLoadKeepsMirror == [][C34_Step]_vars

(* C35 *)

\* C35: in every reachable state, every item in the Retry Queue's pending set
\* references a DeliveryLog row whose status is 'pending'; no item is pending
\* for a row that is already 'success' or 'failed'.
C35_PendingRowPending ==
    \A i \in QueueIdx :
        /\ queue[i].logId \in DOMAIN logs
        /\ logs[queue[i].logId].status = "pending"

(* C36 *)

\* The log ids of the attempts in flight: the initial sends and the retry sends
\* handed to the Sender that have not returned.
InFlightLogIds ==
    {calls[c].logId[1] : c \in {k \in 1..MaxCalls : calls[k].pc = "wait"}}
    \cup {passes[p].item[1].logId : p \in {k \in 1..MaxPasses : passes[k].pc = "wait"}}

\* C36: in every reachable state, the Retry Queue's pending set holds at most
\* one item per DeliveryLog id, and no log id has one item pending while
\* another attempt for the same id is in flight.
C36_OneItemPerLog ==
    /\ \A i, j \in QueueIdx : i # j => queue[i].logId # queue[j].logId
    /\ \A i \in QueueIdx : queue[i].logId \notin InFlightLogIds

(* C37 *)

\* The item carries what sendWebhook was given for its delivery.
Captured(item) ==
    LET D == deliveries[item.did]
    IN  /\ item.logId = D.logId
        /\ item.configId = D.configId
        /\ item.url = D.url
        /\ item.headers = D.headers
        /\ item.payload = D.payload
        /\ item.maxRetries = D.max_retries

\* Every pending item carries what was captured for its delivery.
C37_Captured == \A i \in QueueIdx : Captured(queue[i])

\* A step of configuration management leaves the queue, its timer and its
\* passes alone; an item handed to the Sender carries what was captured; and a
\* failed retry is followed by another exactly when the captured limit allows.
C37_Step ==
    /\ (ops' # ops \/ store' # store \/ configs' # configs) =>
          UNCHANGED <<queue, timer, isProcessing, passes>>
    /\ \A p \in 1..MaxPasses : HandsOver(p) => Captured(passes'[p].item[1])
    /\ \A p \in 1..MaxPasses :
          LET item == passes[p].item[1]
              old == {queue[i].oid : i \in QueueIdx}
          IN  (/\ RetryCompletes(p)
               /\ deliveries'[item.did].fails = deliveries[item.did].fails + 1) =>
                  ((\E i \in 1..Len(queue') :
                       /\ queue'[i].oid \notin old
                       /\ queue'[i].did = item.did
                       /\ queue'[i].retryCount = item.retryCount + 1)
                   <=> item.retryCount + 1 < deliveries[item.did].max_retries)

\* C37: every retry send for a delivery uses the same payload, URL, headers and
\* retry limit as were captured when the item was first enqueued: editing,
\* disabling or deleting the config afterwards (updateConfig, deleteConfig,
\* loadConfigs) neither cancels the pending retries nor changes what they send
\* or how many are made.
C37_RetriesKeepCapture == []C37_Captured /\ [][C37_Step]_vars

\* The second retry for config A goes to the url captured at the initial send,
\* after A was given another url and a retry limit of 1 and the mirror was
\* reloaded.
C37_Witness ==
    \E p \in 1..MaxPasses :
        /\ passes[p].pc = "wait"
        /\ passes[p].item[1].configId = "A"
        /\ passes[p].item[1].retryCount = 1
        /\ passes[p].item[1].url = "uA"
        /\ \E k \in 1..Len(configs) :
              /\ configs[k].id = "A"
              /\ configs[k].url = "uA2"
              /\ configs[k].max_retries = 1

(* C38 *)

\* The ids of a list of configs, in order.
IdsOf(cfgs) == [k \in 1..Len(cfgs) |-> cfgs[k].id]

\* The configs a call iterates over are those subscribed in the mirror when it
\* begins, and stay the same, in the same order, until it returns.
C38_Step ==
    \A c \in 1..MaxCalls :
        /\ (calls[c].pc = "idle" /\ calls'[c].pc # "idle") =>
              IdsOf(calls'[c].cfgs) = SubscribedIds(configs, calls'[c].eventType)
        /\ (calls[c].pc \notin {"idle", "done"}) => calls'[c].cfgs = calls[c].cfgs

\* The 'pending' rows and initial sends of a call go to the configs it took at
\* its start, in their order, for each tweet; each delivery is made with the
\* record taken at the start.
C38_Delivered ==
    \A c \in 1..MaxCalls :
        (calls[c].pc # "idle" /\ calls[c].cfgs # <<>>) =>
           LET order == BatchOrder(calls[c].tweets, IdsOf(calls[c].cfgs))
           IN  /\ IsPrefix(calls[c].hist, order)
               /\ calls[c].pc = "done" => calls[c].hist = order
               /\ \A d \in DeliveriesOf(c) :
                     \E k \in 1..Len(calls[c].cfgs) :
                        /\ calls[c].cfgs[k].id = deliveries[d].configId
                        /\ calls[c].cfgs[k].url = deliveries[d].url
                        /\ calls[c].cfgs[k].max_retries = deliveries[d].max_retries

\* C38: the set and order of configs a triggerWebhooks or triggerWebhooksBatch
\* call delivers to is fixed at the start of the call: a config added, enabled,
\* disabled or deleted (and the mirror reloaded) while the call is awaiting a
\* send or a log write does not change which configs that call delivers to.
C38_ConfigsFixedAtStart == []C38_Delivered /\ [][C38_Step]_vars

\* A call awaits its first send with the configs A, D, E it took at its start;
\* C has been enabled meanwhile and the mirror reloaded, so the mirror now has
\* four configs subscribed to the event.
C38_Witness ==
    \E c \in 1..MaxCalls :
        /\ calls[c].pc = "wait"
        /\ calls[c].ci = 1
        /\ IdsOf(calls[c].cfgs) = <<"A", "D", "E">>
        /\ SubscribedIds(configs, calls[c].eventType) = <<"A", "C", "D", "E">>

(* C39 *)

\* Call c begins in this step.
Begins(c) == calls[c].pc = "idle" /\ calls'[c].pc # "idle"

\* The call finds no config: it returns at once, having sent nothing, written
\* no row and enqueued nothing.
SeesEmptyMirror(c) ==
    /\ calls'[c].cfgs = <<>>
    /\ calls'[c].pc = "done"
    /\ UNCHANGED <<logs, queue, timer, deliveries>>

\* The loadConfigs the constructor called has completed.
InitialLoadDone == ops[1].pc = "done"

\* Some loadConfigs call has completed.
SomeLoadDone == \E i \in 1..Len(ops) : ops[i].pc = "done"

\* C39: a triggerWebhooks or triggerWebhooksBatch call that starts before the
\* initial loadConfigs begun by the WebhookManager constructor has completed
\* sees an empty mirror: it sends nothing, writes no DeliveryLog row and
\* enqueues no retry, even when the durable store holds enabled configs
\* subscribed to the event.
C39_EmptyBeforeInitialLoad ==
    [][\A c \in 1..MaxCalls : (Begins(c) /\ ~InitialLoadDone) => SeesEmptyMirror(c)]_vars

\* C39, amended: a call that starts before any loadConfigs call has completed
\* (the constructor's or a later one) sees an empty mirror: it sends nothing,
\* writes no DeliveryLog row and enqueues no retry, even when the durable store
\* holds enabled configs subscribed to the event.
C39_EmptyBeforeAnyLoad ==
    [][\A c \in 1..MaxCalls : (Begins(c) /\ ~SomeLoadDone) => SeesEmptyMirror(c)]_vars

\* A 'like' call has returned with no config and nothing is written, while no
\* load has completed and the table holds A, enabled and subscribed to 'like'.
C39_Witness ==
    /\ ~SomeLoadDone
    /\ \E c \in 1..MaxCalls :
          /\ calls[c].pc = "done"
          /\ calls[c].eventType = "like"
          /\ calls[c].cfgs = <<>>
    /\ logs = <<>> /\ queue = <<>> /\ deliveries = <<>>
    /\ "A" \in DOMAIN store /\ store["A"].enabled /\ "like" \in store["A"].events

====
